---- MODULE Spec2Model ----
(***************************************************************************)
(* fhir-populator: download FHIR packages from a registry, build the       *)
(* dependency graph and upload the resources of every package to a FHIR    *)
(* server (src/src/fhir_populator/populator.py).                           *)
(*                                                                         *)
(* Python strings are sequences of code points, so that slicing,           *)
(* concatenation, lower-casing and the lexicographic comparison of the     *)
(* sort key are computed and not assumed.  None is the model value None.   *)
(***************************************************************************)
EXTENDS Integers, Sequences, FiniteSets, TLC

\* Python's None; it is not a string (code points are not negative)
None == <<-1>>

(***************************************************************************)
(* Bounds of the model.                                                    *)
(***************************************************************************)
MaxFiles == 2       \* files of the package whose content is enumerated
MaxRetry == 2       \* "Retry" answers of the operator in one run
MaxDeps == 1        \* dependencies listed in one enumerated manifest

(***************************************************************************)
(* String literals of the program.                                         *)
(***************************************************************************)
CodeSystem == <<67, 111, 100, 101, 83, 121, 115, 116, 101, 109>>
ValueSet == <<86, 97, 108, 117, 101, 83, 101, 116>>
ConceptMap == <<67, 111, 110, 99, 101, 112, 116, 77, 97, 112>>
StructureDefinition == <<83, 116, 114, 117, 99, 116, 117, 114, 101, 68, 101, 102, 105, 110, 105, 116, 105, 111, 110>>
Bundle == <<66, 117, 110, 100, 108, 101>>
Patient == <<80, 97, 116, 105, 101, 110, 116>>
Condition == <<67, 111, 110, 100, 105, 116, 105, 111, 110>>
Consent == <<67, 111, 110, 115, 101, 110, 116>>
DiagnosticReport == <<68, 105, 97, 103, 110, 111, 115, 116, 105, 99, 82, 101, 112, 111, 114, 116>>
Immunization == <<73, 109, 109, 117, 110, 105, 122, 97, 116, 105, 111, 110>>
MedicationStatement == <<77, 101, 100, 105, 99, 97, 116, 105, 111, 110, 83, 116, 97, 116, 101, 109, 101, 110, 116>>
Observation == <<79, 98, 115, 101, 114, 118, 97, 116, 105, 111, 110>>
Procedure == <<80, 114, 111, 99, 101, 100, 117, 114, 101>>
ImplementationGuide == <<73, 109, 112, 108, 101, 109, 101, 110, 116, 97, 116, 105, 111, 110, 71, 117, 105, 100, 101>>
\* two resource types the priority table does not list
SearchParameter == <<83, 101, 97, 114, 99, 104, 80, 97, 114, 97, 109, 101, 116, 101, 114>>
Basic == <<66, 97, 115, 105, 99>>

DirOther == <<111, 116, 104, 101, 114>>                                 \* "other"
DirExamples == <<101, 120, 97, 109, 112, 108, 101, 115>>                \* "examples"
DirPackage == <<112, 97, 99, 107, 97, 103, 101>>                        \* "package"
PackageJson == <<112, 97, 99, 107, 97, 103, 101, 46, 106, 115, 111, 110>>  \* "package.json"
IndexJson == <<105, 110, 100, 101, 120, 46, 106, 115, 111, 110>>        \* "index.json"
ExtSch == <<46, 115, 99, 104>>                                          \* ".sch"
Transaction == <<116, 114, 97, 110, 115, 97, 99, 116, 105, 111, 110>>   \* "transaction"
Collection == <<99, 111, 108, 108, 101, 99, 116, 105, 111, 110>>        \* "collection"
IdSeparator == <<45, 45>>                                               \* "--"
Slash == <<47>>                                                         \* "/"
At == <<64>>                                                            \* "@"
Underscore == <<95>>                                                    \* "_"
LessThan == <<60>>                                                      \* "<"
hl7_fhir_r4 == <<104, 108, 55, 46, 102, 104, 105, 114, 46, 114, 52>>    \* "hl7.fhir.r4"
hl7_fhir_r4_core == hl7_fhir_r4 \o <<46, 99, 111, 114, 101>>            \* "hl7.fhir.r4.core"

(***************************************************************************)
(* Python string operations.                                               *)
(***************************************************************************)
\* s[:n]  (n < 0 counts from the end, as Python slices do)
Prefix(s, n) ==
    IF n >= 0
    THEN SubSeq(s, 1, IF n < Len(s) THEN n ELSE Len(s))
    ELSE SubSeq(s, 1, IF Len(s) + n > 0 THEN Len(s) + n ELSE 0)

\* s.startswith(p)
StartsWith(s, p) == Len(p) <= Len(s) /\ SubSeq(s, 1, Len(p)) = p

\* s.endswith(p)
EndsWith(s, p) == Len(p) <= Len(s) /\ SubSeq(s, Len(s) - Len(p) + 1, Len(s)) = p

\* sub in s
Contains(s, sub) ==
    \E i \in 1..(Len(s) - Len(sub) + 1) : SubSeq(s, i, i + Len(sub) - 1) = sub

\* s.lower() on one character and on a string
LowerChar(c) == IF c \in 65..90 THEN c + 32 ELSE c
Lower(s) == [i \in 1..Len(s) |-> LowerChar(s[i])]

\* s.rstrip(c) and s.strip(c) for a one-character c
RECURSIVE RStrip(_, _)
RStrip(s, c) ==
    IF s # <<>> /\ s[Len(s)] = c THEN RStrip(SubSeq(s, 1, Len(s) - 1), c) ELSE s

RECURSIVE LStrip(_, _)
LStrip(s, c) == IF s # <<>> /\ s[1] = c THEN LStrip(Tail(s), c) ELSE s

Strip(s, c) == LStrip(RStrip(s, c), c)

\* s < t, the code point order Python compares str values by
RECURSIVE StrLess(_, _)
StrLess(s, t) ==
    IF t = <<>> THEN FALSE
    ELSE IF s = <<>> THEN TRUE
    ELSE IF s[1] # t[1] THEN s[1] < t[1]
    ELSE StrLess(Tail(s), Tail(t))

\* s.split(c) for a one-character c: the list of the pieces
RECURSIVE Split(_, _)
Split(s, c) ==
    IF \A i \in 1..Len(s) : s[i] # c THEN <<s>>
    ELSE LET k == CHOOSE i \in 1..Len(s) :
                     s[i] = c /\ \A j \in 1..(i - 1) : s[j] # c
         IN  <<SubSeq(s, 1, k - 1)>> \o Split(SubSeq(s, k + 1, Len(s)), c)

\* os.path.splitext(name): the extension starts at the last dot, unless the
\* only dots are leading ones
SplitExt(name) ==
    LET dots == {i \in 1..Len(name) :
                    name[i] = 46 /\ \E j \in 1..(i - 1) : name[j] # 46}
    IN  IF dots = {} THEN <<name, <<>>>>
        ELSE LET k == CHOOSE i \in dots : \A j \in dots : j <= i
             IN  <<SubSeq(name, 1, k - 1), SubSeq(name, k, Len(name))>>

\* python-slugify: lower-case, every run of characters outside [-a-z0-9]
\* becomes one "-", repeated "-" collapse, "-" is stripped at both ends, and a
\* positive max_length cuts the slug and strips "-" again
SlugChar(c) ==
    LET l == LowerChar(c)
    IN  IF l \in 97..122 \/ l \in 48..57 \/ l = 45 THEN l ELSE 45

RECURSIVE CollapseDashes(_)
CollapseDashes(s) ==
    IF Len(s) < 2 THEN s
    ELSE IF s[1] = 45 /\ s[2] = 45 THEN CollapseDashes(Tail(s))
    ELSE <<s[1]>> \o CollapseDashes(Tail(s))

smart_truncate(s, max_length) ==
    LET t == Strip(s, 45)
    IN  IF max_length = 0 THEN t
        ELSE IF Len(t) < max_length THEN t
        ELSE Strip(Prefix(t, max_length), 45)

slugify(text, max_length) ==
    LET t == Strip(CollapseDashes([i \in 1..Len(text) |-> SlugChar(text[i])]), 45)
    IN  IF max_length > 0 THEN smart_truncate(t, max_length) ELSE t


(***************************************************************************)
(* Results of operations that can raise: exc names the exception raised,   *)
(* NoExc when the operation returns val.                                   *)
(***************************************************************************)
NoExc == "NoExc"
Ok(v) == [exc |-> NoExc, val |-> v]
Raise(e) == [exc |-> e, val |-> None]

(***************************************************************************)
(* Files.  A file on disk is                                               *)
(*   [dir: the directories below the package root, name: the file name,    *)
(*    first: what read(1) returns, "" for an empty file,                  *)
(*    syntax: "json" | "xml" | "bad", what the content parses as,          *)
(*    tag: the tag of the XML root element (None otherwise),               *)
(*    items: the keys of the JSON object or the child elements of the XML  *)
(*           root, in document order, as records [k, v, a]; k is the key   *)
(*           or the element's tag, v the JSON value or the element's text  *)
(*           (None for null / no text), a the element's value attribute].  *)
(* A file path is [root, dir, name]; root is the package directory.        *)
(***************************************************************************)
\* k in the dict / root.find(k) is not None
Has(items, k) == \E i \in 1..Len(items) : items[i].k = k

\* the value of key k / the text of the first child k
Find(items, k) ==
    items[CHOOSE i \in 1..Len(items) :
              items[i].k = k /\ \A j \in 1..(i - 1) : items[j].k # k].v

\* the document with item k set to v; add tells whether a missing k is added
SetItem(items, k, v, add) ==
    IF \E i \in 1..Len(items) : items[i].k = k
    THEN LET n == CHOOSE i \in 1..Len(items) :
                      items[i].k = k /\ \A j \in 1..(i - 1) : items[j].k # k
         IN  [items EXCEPT ![n].v = v]
    ELSE IF add THEN Append(items, [k |-> k, v |-> v, a |-> None]) ELSE items

FileTypeJSON == "JSON"
FileTypeXML == "XML"

get_filetype(file) == IF file.first # LessThan THEN FileTypeJSON ELSE FileTypeXML

\* faulty variant: the namespace stays in the resource type
get_argument_xml_KeepsNamespace(file, argument, raise_on_missing) ==
    IF file.syntax # "xml" THEN Raise("ParseError")
    ELSE IF argument = "resourceType" THEN Ok(file.tag)
    ELSE IF ~Has(file.items, argument) /\ raise_on_missing THEN Raise("LookupError")
    ELSE IF ~Has(file.items, argument) THEN Ok(None)
    ELSE Ok(Find(file.items, argument))

get_argument_xml(file, argument, raise_on_missing) ==
    IF file.syntax # "xml" THEN Raise("ParseError")
    ELSE IF argument = "resourceType"
    THEN IF Contains(file.tag, <<123>>)
         THEN Ok(Split(file.tag, 125)[2])
         ELSE Ok(file.tag)
    ELSE IF ~Has(file.items, argument) /\ raise_on_missing THEN Raise("LookupError")
    ELSE IF ~Has(file.items, argument) THEN Ok(None)
    ELSE Ok(Find(file.items, argument))

get_argument_json(file, argument, raise_on_missing) ==
    IF file.syntax # "json" THEN Raise("JSONDecodeError")
    ELSE IF ~Has(file.items, argument) /\ raise_on_missing
    THEN Raise("LookupError")
    ELSE IF ~Has(file.items, argument) THEN Ok(None)
    ELSE Ok(Find(file.items, argument))

get_argument(type, file, argument, raise_on_missing) ==
    IF type = FileTypeXML
    THEN get_argument_xml(file, argument, raise_on_missing)
    ELSE get_argument_json(file, argument, raise_on_missing)

default_resource_priority == 50

resource_order_dict ==
    (CodeSystem :> 1) @@ (ValueSet :> 2) @@ (ConceptMap :> 3) @@
    (StructureDefinition :> 4) @@ (Bundle :> 100) @@ (Patient :> 110) @@
    (Condition :> 120) @@ (Consent :> 120) @@ (DiagnosticReport :> 120) @@
    (Immunization :> 120) @@ (MedicationStatement :> 120) @@
    (Observation :> 120) @@ (Procedure :> 120) @@ (ImplementationGuide :> 999)

\* faulty variant: Patient falls into the group of the clinical resources
get_resource_order_PatientLate(resource_type) ==
    IF resource_type = Patient THEN 120
    ELSE IF resource_type \in DOMAIN resource_order_dict
    THEN resource_order_dict[resource_type]
    ELSE default_resource_priority

get_resource_order(resource_type) ==
    IF resource_type \in DOMAIN resource_order_dict
    THEN resource_order_dict[resource_type]
    ELSE default_resource_priority

FhirIdLength == 64

get_id(type, file, package_version, generate_missing_ids, versioned_ids) ==
    LET got == get_argument(type, file, "id", FALSE)
    IN  IF got.exc # NoExc THEN got
        ELSE IF got.val = None /\ ~generate_missing_ids THEN Ok(None)
        ELSE LET filename_no_ext == SplitExt(file.name)[1]
                 slug_version == slugify(package_version, 0)
                 max_length_versioned == FhirIdLength - Len(slug_version) - 2
                 generated_id == slugify(filename_no_ext, max_length_versioned)
                 resource_id == IF got.val = None THEN generated_id ELSE got.val
             IN  IF versioned_ids
                 THEN Ok(Prefix(resource_id, max_length_versioned)
                            \o IdSeparator \o slug_version)
                 ELSE Ok(Prefix(resource_id, FhirIdLength))

\* FhirResource.__init__: the record, or the exception the constructor raises
FhirResource(file_path, file, package_version, generate_missing_ids, versioned_ids) ==
    LET type == get_filetype(file)
        rt == get_argument(type, file, "resourceType", TRUE)
        new_id == get_id(type, file, package_version, generate_missing_ids, versioned_ids)
    IN  IF rt.exc # NoExc THEN rt
        ELSE IF new_id.exc # NoExc THEN new_id
        ELSE Ok([file_path |-> file_path,
                 type |-> type,
                 resource_type |-> rt.val,
                 id |-> new_id.val,
                 resource_order |-> get_resource_order(rt.val)])

\* the document that get_payload serializes, or the exception it raises
get_payload_rewrite_xml(res, file, rewrite_version) ==
    IF file.syntax # "xml" THEN Raise("ParseError")
    ELSE LET v1 == IF rewrite_version # None
                   THEN SetItem(file.items, "version", rewrite_version, FALSE)
                   ELSE file.items
         IN  IF res.id # None /\ ~Has(file.items, "id")
             THEN Raise("AttributeError")
             ELSE Ok([tag |-> file.tag,
                      items |-> IF res.id # None
                                THEN SetItem(v1, "id", res.id, FALSE) ELSE v1])

get_payload_rewrite_json(res, file, rewrite_version) ==
    IF file.syntax # "json" THEN Raise("JSONDecodeError")
    ELSE LET v1 == IF rewrite_version # None
                   THEN SetItem(file.items, "version", rewrite_version, FALSE)
                   ELSE file.items
         IN  Ok([tag |-> None,
                 items |-> IF res.id # None
                           THEN SetItem(v1, "id", res.id, TRUE) ELSE v1])

get_payload(res, file, rewrite_version) ==
    IF res.type = FileTypeXML
    THEN get_payload_rewrite_xml(res, file, rewrite_version)
    ELSE get_payload_rewrite_json(res, file, rewrite_version)

(***************************************************************************)
(* sort_fhir_files: list.sort is stable; the key is the pair               *)
(* (resource_order, resource_type).                                        *)
(***************************************************************************)
\* faulty variant: the key is the priority alone
sort_key_less_PriorityOnly(x, y) == x.resource_order < y.resource_order

sort_key_less(x, y) ==
    \/ x.resource_order < y.resource_order
    \/ /\ x.resource_order = y.resource_order
       /\ StrLess(x.resource_type, y.resource_type)

\* x inserted behind every element that is not greater than x
RECURSIVE InsertSorted(_, _)
InsertSorted(sorted, x) ==
    IF sorted = <<>> THEN <<x>>
    ELSE IF sort_key_less(x, sorted[1]) THEN <<x>> \o sorted
    ELSE <<sorted[1]>> \o InsertSorted(Tail(sorted), x)

RECURSIVE sort_fhir_files(_)
sort_fhir_files(fhir_files) ==
    IF fhir_files = <<>> THEN <<>>
    ELSE InsertSorted(sort_fhir_files(SubSeq(fhir_files, 1, Len(fhir_files) - 1)),
                      fhir_files[Len(fhir_files)])


(***************************************************************************)
(* The registry and the packages it serves.                                *)
(***************************************************************************)
Item(k, v) == [k |-> k, v |-> v, a |-> None]
Elem(k, text, value) == [k |-> k, v |-> text, a |-> value]

IdA == <<97>>                      \* package ids "a", "b", "c"
IdB == <<98>>
IdC == <<99>>
AllIds == <<IdA, IdB, IdC>>
Version10 == <<49, 46, 48>>        \* "1.0"
Version09 == <<48, 46, 57>>        \* "0.9"

PackageSpec(id, version) == id \o At \o version

JsonFile(dir, name, items) ==
    [dir |-> dir, name |-> name, first |-> <<123>>, syntax |-> "json",
     tag |-> None, items |-> items]

XmlFile(dir, name, tag, items) ==
    [dir |-> dir, name |-> name, first |-> LessThan, syntax |-> "xml",
     tag |-> tag, items |-> items]

\* package.json; dependencies is the dict as the list of its (name, version)
ManifestFile(id, version, dependencies) ==
    JsonFile(<<DirPackage>>, PackageJson,
             <<Item("name", id), Item("version", version),
               Item("description", <<100, 101, 109, 111>>),
               Item("dependencies", dependencies)>>)

\* resource files of the packages
fCS == JsonFile(<<DirPackage>>, <<99, 115, 46, 106, 115, 111, 110>>,        \* cs.json
                <<Item("resourceType", CodeSystem), Item("id", <<67, 115, 49>>)>>)
fVS == JsonFile(<<DirPackage>>, <<118, 95, 49, 46, 106, 115, 111, 110>>,    \* v_1.json
                <<Item("resourceType", ValueSet), Item("version", <<48, 46, 49>>)>>)
fCM == JsonFile(<<DirPackage>>, <<99, 109, 46, 106, 115, 111, 110>>,        \* cm.json
                <<Item("resourceType", ConceptMap), Item("id", <<99, 109>>),
                  Item("version", <<48, 46, 49>>)>>)
\* <StructureDefinition><id>sd</id></StructureDefinition>
fSD == XmlFile(<<DirPackage>>, <<115, 100, 46, 120, 109, 108>>,             \* sd.xml
               StructureDefinition, <<Elem("id", <<115, 100>>, None)>>)
fBT == JsonFile(<<DirPackage>>, <<98, 116, 46, 106, 115, 111, 110>>,        \* bt.json
                <<Item("resourceType", Bundle), Item("id", <<98, 116>>),
                  Item("type", Transaction)>>)
fBC == JsonFile(<<DirPackage>>, <<98, 99, 46, 106, 115, 111, 110>>,         \* bc.json
                <<Item("resourceType", Bundle), Item("type", Collection)>>)
fOBS == JsonFile(<<DirPackage>>, <<111, 46, 106, 115, 111, 110>>,           \* o.json
                 <<Item("resourceType", Observation), Item("id", <<111, 49>>)>>)
fCOND == JsonFile(<<DirPackage>>, <<99, 111, 110, 100, 46, 106, 115, 111, 110>>,  \* cond.json
                  <<Item("resourceType", Condition)>>)
\* <Bundle xmlns="f"><id value="bx"/><type value="transaction"/></Bundle>
fBX == XmlFile(<<DirPackage>>, <<98, 120, 46, 120, 109, 108>>,              \* bx.xml
               <<123, 102, 125>> \o Bundle,
               <<Elem("{f}id", None, <<98, 120>>),
                 Elem("{f}type", None, Transaction)>>)
fBAD == JsonFile(<<DirPackage>>, <<98, 97, 100, 46, 106, 115, 111, 110>>,   \* bad.json
                 <<Item("id", <<98, 120>>)>>)

FileKinds == {fCS, fVS, fCM, fSD, fBT, fBC, fOBS, fCOND, fBX, fBAD}

ResourceTypes ==
    {CodeSystem, ValueSet, ConceptMap, StructureDefinition, Bundle, Patient,
     Condition, Consent, DiagnosticReport, Immunization, MedicationStatement,
     Observation, Procedure, ImplementationGuide, SearchParameter, Basic}

\* a JSON resource of the given type without an id
fTyped(resource_type) ==
    JsonFile(<<DirPackage>>, <<114, 46, 106, 115, 111, 110>>,              \* r.json
             <<Item("resourceType", resource_type)>>)

\* the lists of at most n different elements of S
Arrangements(S, n) ==
    {q \in UNION {[1..k -> S] : k \in 0..n} :
        \A i, j \in 1..Len(q) : i # j => q[i] # q[j]}

DepsOf(ids) ==
    LET chosen == SelectSeq(AllIds, LAMBDA i : i \in ids)
    IN  [n \in 1..Len(chosen) |-> <<chosen[n], Version10>>]

\* what GET {registry}/{id}/{version} serves
Tars(deps, files) ==
    [key \in {<<AllIds[n], Version10>> : n \in 1..3} |->
        <<ManifestFile(key[1], key[2], DepsOf(deps[key[1]]))>> \o files[key[1]]]

\* what GET {registry}/{id} lists
Versions == [id \in {IdA, IdB, IdC} |-> <<Version09, Version10>>]

Settings(packages, get_dependencies, non_interactive, only_put, rewrite_versions) ==
    [endpoint |-> RStrip(<<115, 47>>, 47),
     packages |-> packages,
     get_dependencies |-> get_dependencies,
     non_interactive |-> non_interactive,
     include_examples |-> FALSE,
     rewrite_versions |-> rewrite_versions,
     exclude_resource_type |-> {},
     only |-> {},
     only_put |-> only_put,
     versioned_ids |-> FALSE]

\* runs over graphs of packages with fixed content
GraphFiles == (IdA :> <<fVS, fCM>>) @@ (IdB :> <<fSD>>) @@ (IdC :> <<fBT>>)

GraphRuns ==
    {[args |-> Settings(top, TRUE, TRUE, FALSE, TRUE),
      registry |-> [versions |-> Versions, tars |-> Tars(deps, GraphFiles)]] :
        top \in {<<IdA>>, <<PackageSpec(IdC, Version10), PackageSpec(IdA, Version10)>>},
        deps \in {d \in [{IdA, IdB, IdC} -> SUBSET {IdA, IdB, IdC}] :
                     \A i \in DOMAIN d : Cardinality(d[i]) <= MaxDeps}}

\* runs over one package with enumerated content, no prompts
FileRuns ==
    {[args |-> Settings(<<PackageSpec(IdA, Version10)>>, FALSE, TRUE, op, FALSE),
      registry |-> [versions |-> Versions,
                    tars |-> Tars([i \in {IdA, IdB, IdC} |-> {}],
                                  [i \in {IdA, IdB, IdC} |-> IF i = IdA THEN files ELSE <<>>])]] :
        op \in BOOLEAN, files \in Arrangements(FileKinds, MaxFiles)}

\* the resources of the runs that prompt
PromptKinds == {fCS, fBT, fOBS}

\* runs over one package where the user answers the prompts
PromptRuns ==
    {[args |-> Settings(<<PackageSpec(IdA, Version10)>>, FALSE, FALSE, op, FALSE),
      registry |-> [versions |-> Versions,
                    tars |-> Tars([i \in {IdA, IdB, IdC} |-> {}],
                                  [i \in {IdA, IdB, IdC} |-> IF i = IdA THEN files ELSE <<>>])]] :
        op \in BOOLEAN, files \in Arrangements(PromptKinds, MaxFiles)}

\* runs over one package with one resource, of every resource type
TypeRuns ==
    {[args |-> Settings(<<PackageSpec(IdA, Version10)>>, FALSE, TRUE, op, FALSE),
      registry |-> [versions |-> Versions,
                    tars |-> Tars([i \in {IdA, IdB, IdC} |-> {}],
                                  [i \in {IdA, IdB, IdC} |->
                                      IF i = IdA THEN <<fTyped(t)>> ELSE <<>>])]] :
        op \in BOOLEAN, t \in ResourceTypes}


\* PopulatorSettings.__init__ for the remaining command line arguments: the
\* type filters are lower-cased
SettingsWith(settings, exclude_resource_type, only, include_examples, versioned_ids) ==
    [settings EXCEPT
        !.exclude_resource_type = {Lower(a) : a \in exclude_resource_type},
        !.only = {Lower(a) : a \in only},
        !.include_examples = include_examples,
        !.versioned_ids = versioned_ids]

\* what the registry serves when every package has the given version and the
\* given entries (manifests included)
TarsOf(version, contents) ==
    [key \in {<<id, version>> : id \in DOMAIN contents} |-> contents[key[1]]]

\* the file in another directory of the archive
InDir(file, dir) == [file EXCEPT !.dir = dir]

\* a version of n characters
Ones(n) == [i \in 1..n |-> 49]

\* l.json: a resource whose id is longer than a FHIR id may be
fLONG == JsonFile(<<DirPackage>>, <<108, 46, 106, 115, 111, 110>>,
                  <<Item("resourceType", Basic), Item("id", Ones(65))>>)

\* runs over one package with one resource, over package versions of
\* different lengths
IdVersions == {Version10, Ones(60), Ones(62), Ones(63)}
IdKinds == {fCS, fVS, fSD, fBX, fLONG}

IdRuns ==
    {[args |-> SettingsWith(Settings(<<PackageSpec(IdA, v)>>, FALSE, TRUE, op, FALSE),
                            {}, {}, FALSE, vi),
      registry |-> [versions |-> Versions,
                    tars |-> TarsOf(v, IdA :> <<ManifestFile(IdA, v, <<>>), f>>)]] :
        v \in IdVersions, f \in IdKinds, op \in BOOLEAN, vi \in BOOLEAN}


\* files that the walk enumerates in other places than the package directory,
\* and files that are no resources
DirSub == <<115, 117, 98>>                                              \* "sub"
fOTHER == InDir(fCS, <<DirPackage, DirOther>>)
fOTHERSUB == InDir(fCS, <<DirPackage, DirOther, DirSub>>)
fEX == InDir(fCS, <<DirPackage, DirExamples>>)
fEXSUB == InDir(fCS, <<DirPackage, DirExamples, DirSub>>)
\* .index.json, the index of the package
fINDEX == JsonFile(<<DirPackage>>, <<46>> \o IndexJson, <<Item("index-version", <<49>>)>>)
\* x.sch, a Schematron file
fSCH == XmlFile(<<DirPackage>>, <<120>> \o ExtSch, <<115, 99, 104, 101, 109, 97>>, <<>>)
\* w.xml: an XML document that starts with a blank
fWS == [XmlFile(<<DirPackage>>, <<119, 46, 120, 109, 108>>, CodeSystem,
                <<Elem("id", <<119>>, None)>>) EXCEPT !.first = <<32>>]
\* g.json: not a JSON document
fGARBLED == [JsonFile(<<DirPackage>>, <<103, 46, 106, 115, 111, 110>>, <<>>)
                EXCEPT !.syntax = "bad"]
\* xpackage.json: a resource whose file name ends like the manifest's
fXPKG == JsonFile(<<DirPackage>>, <<120>> \o PackageJson,
                  <<Item("resourceType", ValueSet), Item("id", <<120, 112>>)>>)
\* a resource whose type is written in capitals
VALUESET == <<86, 65, 76, 85, 69, 83, 69, 84>>
OBSERVATION == <<79, 66, 83, 69, 82, 86, 65, 84, 73, 79, 78>>
fVSU == JsonFile(<<DirPackage>>, <<117, 46, 106, 115, 111, 110>>,
                 <<Item("resourceType", VALUESET), Item("id", <<117>>)>>)

\* runs over one package whose files lie in the directories of the walk
WalkKinds == {fVS, fOTHER, fOTHERSUB, fEX, fEXSUB, fINDEX, fSCH, fWS, fGARBLED}

WalkRuns ==
    {[args |-> SettingsWith(Settings(<<PackageSpec(IdA, Version10)>>, FALSE, TRUE, FALSE, FALSE),
                            {}, {}, ie, FALSE),
      registry |-> [versions |-> Versions,
                    tars |-> TarsOf(Version10,
                                    IdA :> (<<ManifestFile(IdA, Version10, <<>>)>> \o files))]] :
        ie \in BOOLEAN, files \in Arrangements(WalkKinds, MaxFiles)}

\* runs over two packages, the first with no, one or two manifests
ManifestLists ==
    {<<>>, <<ManifestFile(IdA, Version10, <<>>)>>,
     <<ManifestFile(IdA, Version10, <<>>),
       InDir(ManifestFile(IdA, Version10, <<>>), <<>>)>>}

ManifestRuns ==
    {[args |-> Settings(<<PackageSpec(IdA, Version10), PackageSpec(IdC, Version10)>>,
                        gd, TRUE, FALSE, FALSE),
      registry |-> [versions |-> Versions,
                    tars |-> TarsOf(Version10,
                                    (IdA :> (manifests \o files)) @@
                                    (IdC :> <<ManifestFile(IdC, Version10, <<>>), fOBS>>))]] :
        gd \in BOOLEAN, manifests \in ManifestLists,
        files \in {<<>>, <<fCS>>, <<fXPKG>>, <<fBAD, fCS>>, <<fGARBLED, fSD>>}}

\* runs over one package with one of the two type filters
FilterRuns ==
    {[args |-> SettingsWith(Settings(<<PackageSpec(IdA, Version10)>>, FALSE, TRUE, FALSE, FALSE),
                            filter[1], filter[2], FALSE, FALSE),
      registry |-> [versions |-> Versions,
                    tars |-> TarsOf(Version10,
                                    IdA :> <<ManifestFile(IdA, Version10, <<>>),
                                             fCS, fVSU, fOBS>>)]] :
        filter \in {<<{}, {}>>, <<{CodeSystem}, {}>>, <<{Lower(ValueSet)}, {}>>,
                    <<{OBSERVATION, CodeSystem}, {}>>,
                    <<{}, {ValueSet}>>, <<{}, {OBSERVATION, Lower(CodeSystem)}>>,
                    <<{}, {Patient}>>}}


\* runs where one specifier occurs twice among the top-level packages
DupRuns ==
    {[args |-> Settings(top, gd, TRUE, FALSE, FALSE),
      registry |-> [versions |-> Versions,
                    tars |-> Tars((IdA :> {IdB}) @@ (IdB :> {}) @@ (IdC :> {IdB}),
                                  GraphFiles)]] :
        top \in {<<PackageSpec(IdA, Version10), PackageSpec(IdA, Version10)>>,
                 <<IdA, PackageSpec(IdC, Version10), PackageSpec(IdA, Version10)>>},
        gd \in BOOLEAN}

\* runs where the manifest of the top-level package lists the core package
\* of the base specification, the id of the ignore list, or neither
IgnoreRuns ==
    {[args |-> Settings(<<PackageSpec(IdA, Version10)>>, TRUE, TRUE, FALSE, FALSE),
      registry |-> [versions |-> Versions,
                    tars |-> TarsOf(Version10,
                                    (IdA :> <<ManifestFile(IdA, Version10, deps), fVS>>) @@
                                    (IdB :> <<ManifestFile(IdB, Version10, <<>>), fSD>>) @@
                                    (hl7_fhir_r4_core :>
                                        <<ManifestFile(hl7_fhir_r4_core, Version10, <<>>)>>))]] :
        deps \in {<<<<IdB, Version10>>>>,
                  <<<<hl7_fhir_r4_core, Version10>>>>,
                  <<<<hl7_fhir_r4, Version10>>>>,
                  <<<<IdB, Version10>>, <<hl7_fhir_r4_core, Version10>>>>,
                  <<<<hl7_fhir_r4, Version10>>, <<IdB, Version10>>>>}}

\* runs over top-level packages with and without a version, where the registry
\* lists the versions of package a in either order and knows no other package
ResolveRuns ==
    {[args |-> Settings(top, FALSE, TRUE, FALSE, FALSE),
      registry |-> [versions |-> (IdA :> versions),
                    tars |-> TarsOf(Version10,
                                    (IdA :> <<ManifestFile(IdA, Version10, <<>>), fVS>>) @@
                                    (IdC :> <<ManifestFile(IdC, Version10, <<>>), fBT>>)) @@
                             TarsOf(Version09,
                                    (IdA :> <<ManifestFile(IdA, Version09, <<>>), fCS>>))]] :
        top \in {<<IdA>>, <<PackageSpec(IdC, Version10), IdA>>,
                 <<IdA, PackageSpec(IdC, Version10)>>, <<IdB>>,
                 <<PackageSpec(IdA, Version10), IdA>>},
        versions \in {<<Version09, Version10>>, <<Version10, Version09>>}}

\* package: the tar entry of the directory of the package
tDIR == [dir |-> <<>>, name |-> DirPackage, first |-> <<>>, syntax |-> "bad",
         tag |-> None, items |-> <<>>, member |-> "dir"]
\* cs.json as an entry whose data cannot be read
tBROKEN == [member |-> "unreadable"] @@ fCS

\* runs over one package whose archive has an entry that is no regular file
\* or cannot be read
TarRuns ==
    {[args |-> Settings(<<PackageSpec(IdA, Version10)>>, FALSE, TRUE, FALSE, FALSE),
      registry |-> [versions |-> Versions,
                    tars |-> TarsOf(Version10, IdA :> tar)]] :
        tar \in {<<tDIR, ManifestFile(IdA, Version10, <<>>), fVS>>,
                 <<ManifestFile(IdA, Version10, <<>>), tBROKEN, fVS>>,
                 <<ManifestFile(IdA, Version10, <<>>), fVS, tBROKEN>>}}

\* runs where the registry has no archive for a top-level package or for a
\* dependency
UnservedRuns ==
    {[args |-> Settings(top, gd, TRUE, FALSE, FALSE),
      registry |-> [versions |-> Versions,
                    tars |-> TarsOf(Version10,
                                    (IdA :> <<ManifestFile(IdA, Version10, <<<<IdB, Version09>>>>),
                                              fVS>>) @@
                                    (IdC :> <<ManifestFile(IdC, Version10, <<>>), fBT>>))]] :
        top \in {<<PackageSpec(IdB, Version09)>>,
                 <<PackageSpec(IdC, Version10), PackageSpec(IdB, Version09)>>,
                 <<PackageSpec(IdA, Version10)>>},
        gd \in BOOLEAN}

\* <ValueSet xmlns="f"><version value="0.1"/></ValueSet>
fVX == XmlFile(<<DirPackage>>, <<118, 120, 46, 120, 109, 108>>,            \* vx.xml
               <<123, 102, 125>> \o ValueSet,
               <<Elem("{f}version", None, <<48, 46, 49>>)>>)
\* <ValueSet><version>0.1</version></ValueSet>
fVT == XmlFile(<<DirPackage>>, <<118, 116, 46, 120, 109, 108>>,            \* vt.xml
               ValueSet, <<Elem("version", <<48, 46, 49>>, None)>>)

\* runs over two packages of different versions whose resources have a
\* version, with and without rewriting of versions
RewriteRuns ==
    {[args |-> Settings(<<PackageSpec(IdA, Version10), PackageSpec(IdC, Version09)>>,
                        FALSE, TRUE, FALSE, rw),
      registry |-> [versions |-> Versions,
                    tars |-> TarsOf(Version10,
                                    IdA :> <<ManifestFile(IdA, Version10, <<>>), f>>) @@
                             TarsOf(Version09,
                                    IdC :> <<ManifestFile(IdC, Version09, <<>>), fCM>>)]] :
        rw \in BOOLEAN, f \in {fVS, fVX, fVT}}

\* runs over a graph of three packages where the user answers the prompts
PromptGraphRuns ==
    {[args |-> Settings(<<PackageSpec(IdC, Version10), PackageSpec(IdA, Version10)>>,
                        TRUE, FALSE, FALSE, TRUE),
      registry |-> [versions |-> Versions,
                    tars |-> Tars((IdA :> {IdB}) @@ (IdB :> {}) @@ (IdC :> {}),
                                  GraphFiles)]]}


(***************************************************************************)
(* State.                                                                  *)
(***************************************************************************)
VARIABLES
    pc,                    \* "resolve", "download", "upload", "sent", "prompt", "done", "failed"
    args,                  \* PopulatorSettings
    registry,              \* the registry's answers
    disk,                  \* extract directory: package directory -> files
    packages_to_download,  \* work queue of download_packages
    downloaded_packages,
    untar_count,           \* package specifier -> times fetched and extracted
    dependency_graph,      \* [nodes: node -> path or None, edges: set of <<u, v>>]
    ordered_dependencies,  \* nodes the topological_sort generator has yielded
    package_node,          \* node of the for loop of upload_resources
    rewrite_version,
    fhir_files,            \* queue of the while loop
    fhir_file,             \* record popped last
    retries,               \* "Retry" answers so far
    error,                 \* exception that ended the run, NoExc otherwise
    events                 \* history: requests, responses and prompts in order

vars == <<pc, args, registry, disk, packages_to_download, downloaded_packages,
          untar_count, dependency_graph, ordered_dependencies, package_node,
          rewrite_version, fhir_files, fhir_file, retries, error, events>>

Runs ==
    GraphRuns \cup FileRuns \cup PromptRuns \cup TypeRuns \cup IdRuns
        \cup WalkRuns \cup ManifestRuns \cup FilterRuns \cup DupRuns
        \cup IgnoreRuns \cup ResolveRuns \cup TarRuns \cup UnservedRuns
        \cup RewriteRuns \cup PromptGraphRuns

Init ==
    \E run \in Runs :
        /\ pc = "resolve"
        /\ args = run.args
        /\ registry = run.registry
        /\ disk = <<>>
        /\ packages_to_download = <<>>
        /\ downloaded_packages = <<>>
        /\ untar_count = <<>>
        /\ dependency_graph = [nodes |-> <<>>, edges |-> {}]
        /\ ordered_dependencies = {}
        /\ package_node = None
        /\ rewrite_version = None
        /\ fhir_files = <<>>
        /\ fhir_file = None
        /\ retries = 0
        /\ error = NoExc
        /\ events = <<>>

\* the run ends with exception e (exit(1) is SystemExit)
Fail(e) == pc' = "failed" /\ error' = e

(***************************************************************************)
(* resolve_package_versions and get_latest_package_version                 *)
(***************************************************************************)
\* faulty variant: the first version of the list
get_latest_package_version_First(package_name) ==
    IF package_name \notin DOMAIN registry.versions THEN Raise("KeyError")
    ELSE LET versions == registry.versions[package_name]
         IN  IF versions = <<>> THEN Raise("IndexError")
             ELSE Ok(versions[1])

get_latest_package_version(package_name) ==
    IF package_name \notin DOMAIN registry.versions THEN Raise("KeyError")
    ELSE LET versions == registry.versions[package_name]
         IN  IF versions = <<>> THEN Raise("IndexError")
             ELSE Ok(versions[Len(versions)])

RECURSIVE ResolveList(_)
ResolveList(packages) ==
    IF packages = <<>> THEN Ok(<<>>)
    ELSE LET package == Head(packages)
             this == IF Contains(package, At) THEN Ok(package)
                     ELSE LET latest_version == get_latest_package_version(package)
                          IN  IF latest_version.exc # NoExc THEN latest_version
                              ELSE Ok(package \o At \o latest_version.val)
             rest == ResolveList(Tail(packages))
         IN  IF this.exc # NoExc THEN this
             ELSE IF rest.exc # NoExc THEN rest
             ELSE Ok(<<this.val>> \o rest.val)

resolve_package_versions ==
    /\ pc = "resolve"
    /\ LET resolved_packages == ResolveList(args.packages)
       IN  IF resolved_packages.exc # NoExc
           THEN Fail(resolved_packages.exc) /\ UNCHANGED packages_to_download
           ELSE /\ pc' = "download"
                /\ packages_to_download' = resolved_packages.val
                /\ UNCHANGED error
    /\ UNCHANGED <<args, registry, disk, downloaded_packages, untar_count,
                   dependency_graph, ordered_dependencies, package_node,
                   rewrite_version, fhir_files, fhir_file, retries, events>>

(***************************************************************************)
(* download_packages: one iteration of the work queue loop                 *)
(***************************************************************************)
ignored_dependencies == <<hl7_fhir_r4>>

\* os.path.join of the components
RECURSIVE JoinPath(_)
JoinPath(parts) ==
    IF Len(parts) = 1 THEN parts[1]
    ELSE parts[1] \o Slash \o JoinPath(Tail(parts))

\* the kind of a tar entry: a regular file "file", a directory "dir", or a
\* file whose data cannot be read "unreadable"
TarMember(tarinfo) == IF "member" \in DOMAIN tarinfo THEN tarinfo.member ELSE "file"

\* the tar entry as written to the extract directory: the file name without
\* its extension is slugified; open(extract_to, "wb") has created the file
\* when reading the entry fails, so that entry is left as an empty file
ExtractEntry(tarinfo) ==
    LET parts == SplitExt(tarinfo.name)
        extract_filename == slugify(parts[1], 0) \o parts[2]
    IN  IF TarMember(tarinfo) = "file"
        THEN [tarinfo EXCEPT !.name = extract_filename]
        ELSE [dir |-> tarinfo.dir, name |-> extract_filename, first |-> <<>>,
              syntax |-> "bad", tag |-> None, items |-> <<>>]

\* faulty variant: an archive that cannot be opened counts as an empty one
download_untar_package_NoExit(package_name) ==
    LET parts == Split(package_name, 64)
    IN  IF ~Contains(package_name, At) \/ Len(parts) # 2 THEN Raise("ValueError")
        ELSE LET package_id == parts[1]
                 package_version == parts[2]
                 download_filename == package_id \o Underscore \o package_version
             IN  IF <<package_id, package_version>> \notin DOMAIN registry.tars
                 THEN Ok([path |-> download_filename, files |-> <<>>])
                 ELSE LET tar == registry.tars[<<package_id, package_version>>]
                      IN  IF \E n \in 1..Len(tar) : TarMember(tar[n]) = "dir"
                          THEN Raise("AttributeError")
                          ELSE Ok([path |-> download_filename,
                                   files |-> [n \in 1..Len(tar) |-> ExtractEntry(tar[n])]])

\* download_untar_package: [path, files] of the extracted package. An archive
\* that cannot be opened ends the process by exit(1); extractfile returns None
\* for an entry that is no regular file, and the with statement on None raises
\* an AttributeError (a TypeError from Python 3.11 on), which neither except
\* clause catches; an OSError or TarError of one entry is caught and the loop
\* goes on
download_untar_package(package_name) ==
    LET parts == Split(package_name, 64)
    IN  IF ~Contains(package_name, At) \/ Len(parts) # 2 THEN Raise("ValueError")
        ELSE LET package_id == parts[1]
                 package_version == parts[2]
                 download_filename == package_id \o Underscore \o package_version
             IN  IF <<package_id, package_version>> \notin DOMAIN registry.tars
                 THEN Raise("SystemExit")
                 ELSE LET tar == registry.tars[<<package_id, package_version>>]
                      IN  IF \E n \in 1..Len(tar) : TarMember(tar[n]) = "dir"
                          THEN Raise("AttributeError")
                          ELSE Ok([path |-> download_filename,
                                   files |-> [n \in 1..Len(tar) |-> ExtractEntry(tar[n])]])

FullPath(package_path, file) == JoinPath(<<package_path>> \o file.dir \o <<file.name>>)

\* read_package_json on the files of a package directory: the dict (its
\* items; is_none tells that None is returned), or the exception of json.load
read_package_json(package_path, files) ==
    LET package_json_file ==
            SelectSeq(files, LAMBDA f : Contains(FullPath(package_path, f), PackageJson))
    IN  IF Len(package_json_file) # 1 THEN Ok([is_none |-> TRUE, items |-> <<>>])
        ELSE IF package_json_file[1].syntax # "json" THEN Raise("JSONDecodeError")
        ELSE Ok([is_none |-> FALSE, items |-> package_json_file[1].items])

gather_dependencies(package_path, files) ==
    LET package_json == read_package_json(package_path, files)
    IN  IF package_json.exc # NoExc THEN package_json
        ELSE IF package_json.val.is_none THEN Raise("TypeError")
        ELSE LET package_dependencies ==
                     IF Has(package_json.val.items, "dependencies")
                     THEN Find(package_json.val.items, "dependencies")
                     ELSE <<>>
             IN  Ok([n \in 1..Len(package_dependencies) |->
                        package_dependencies[n][1] \o At \o package_dependencies[n][2]])

\* faulty variant: the package id is compared with the entries
IsIgnored_Exact(dep) ==
    \E n \in 1..Len(ignored_dependencies) : Split(dep, 64)[1] = ignored_dependencies[n]

IsIgnored(dep) ==
    \E n \in 1..Len(ignored_dependencies) : StartsWith(dep, ignored_dependencies[n])

\* faulty variant: a node that exists keeps its attributes
add_node_KeepFirst(graph, node, path) ==
    [graph EXCEPT !.nodes = graph.nodes @@ (node :> path)]

add_node(graph, node, path) ==
    [graph EXCEPT !.nodes = (node :> path) @@ graph.nodes]

add_edge(graph, u, v) ==
    [nodes |-> graph.nodes @@ (u :> None) @@ (v :> None),
     edges |-> graph.edges \cup {<<u, v>>}]

\* faulty variant: no edge from a dependency that is a node already
RECURSIVE AddEdges_OnlyNew(_, _, _)
AddEdges_OnlyNew(graph, dependencies, package) ==
    IF dependencies = <<>> THEN graph
    ELSE AddEdges_OnlyNew(IF \/ IsIgnored(Head(dependencies))
                             \/ Head(dependencies) \in DOMAIN graph.nodes
                          THEN graph
                          ELSE add_edge(graph, Head(dependencies), package),
                          Tail(dependencies), package)

RECURSIVE AddEdges(_, _, _)
AddEdges(graph, dependencies, package) ==
    IF dependencies = <<>> THEN graph
    ELSE AddEdges(IF IsIgnored(Head(dependencies)) THEN graph
                  ELSE add_edge(graph, Head(dependencies), package),
                  Tail(dependencies), package)

\* faulty variant: the package is not recorded as downloaded
download_packages_NoRecord ==
    /\ pc = "download"
    /\ packages_to_download # <<>>
    /\ LET package == Head(packages_to_download)
           queue == Tail(packages_to_download)
           untar == download_untar_package(package)
           dependencies == gather_dependencies(untar.val.path, untar.val.files)
       IN  IF \E n \in 1..Len(downloaded_packages) : downloaded_packages[n] = package
           THEN /\ packages_to_download' = queue
                /\ UNCHANGED <<pc, error, disk, untar_count, dependency_graph,
                               downloaded_packages>>
           ELSE IF untar.exc # NoExc
           THEN /\ Fail(untar.exc)
                /\ packages_to_download' = queue
                /\ UNCHANGED <<disk, untar_count, dependency_graph, downloaded_packages>>
           ELSE /\ disk' = (untar.val.path :> untar.val.files) @@ disk
                /\ untar_count' =
                       IF package \in DOMAIN untar_count
                       THEN [untar_count EXCEPT ![package] = @ + 1]
                       ELSE (package :> 1) @@ untar_count
                /\ IF ~args.get_dependencies
                   THEN /\ dependency_graph' =
                               add_node(dependency_graph, package, untar.val.path)
                        /\ packages_to_download' = queue
                        /\ UNCHANGED <<pc, error, downloaded_packages>>
                   ELSE IF dependencies.exc # NoExc
                   THEN /\ Fail(dependencies.exc)
                        /\ dependency_graph' =
                               add_node(dependency_graph, package, untar.val.path)
                        /\ packages_to_download' = queue
                        /\ UNCHANGED downloaded_packages
                   ELSE /\ dependency_graph' =
                               AddEdges(add_node(dependency_graph, package, untar.val.path),
                                        dependencies.val, package)
                        /\ packages_to_download' =
                               queue \o SelectSeq(dependencies.val, LAMBDA d : ~IsIgnored(d))
                        /\ downloaded_packages' = downloaded_packages
                        /\ UNCHANGED <<pc, error>>
    /\ UNCHANGED <<args, registry, ordered_dependencies, package_node,
                   rewrite_version, fhir_files, fhir_file, retries, events>>

download_packages ==
    /\ pc = "download"
    /\ packages_to_download # <<>>
    /\ LET package == Head(packages_to_download)
           queue == Tail(packages_to_download)
           untar == download_untar_package(package)
           dependencies == gather_dependencies(untar.val.path, untar.val.files)
       IN  IF \E n \in 1..Len(downloaded_packages) : downloaded_packages[n] = package
           THEN /\ packages_to_download' = queue
                /\ UNCHANGED <<pc, error, disk, untar_count, dependency_graph,
                               downloaded_packages>>
           ELSE IF untar.exc # NoExc
           THEN /\ Fail(untar.exc)
                /\ packages_to_download' = queue
                /\ UNCHANGED <<disk, untar_count, dependency_graph, downloaded_packages>>
           ELSE /\ disk' = (untar.val.path :> untar.val.files) @@ disk
                /\ untar_count' =
                       IF package \in DOMAIN untar_count
                       THEN [untar_count EXCEPT ![package] = @ + 1]
                       ELSE (package :> 1) @@ untar_count
                /\ IF ~args.get_dependencies
                   THEN /\ dependency_graph' =
                               add_node(dependency_graph, package, untar.val.path)
                        /\ packages_to_download' = queue
                        /\ UNCHANGED <<pc, error, downloaded_packages>>
                   ELSE IF dependencies.exc # NoExc
                   THEN /\ Fail(dependencies.exc)
                        /\ dependency_graph' =
                               add_node(dependency_graph, package, untar.val.path)
                        /\ packages_to_download' = queue
                        /\ UNCHANGED downloaded_packages
                   ELSE /\ dependency_graph' =
                               AddEdges(add_node(dependency_graph, package, untar.val.path),
                                        dependencies.val, package)
                        /\ packages_to_download' =
                               queue \o SelectSeq(dependencies.val, LAMBDA d : ~IsIgnored(d))
                        /\ downloaded_packages' = Append(downloaded_packages, package)
                        /\ UNCHANGED <<pc, error>>
    /\ UNCHANGED <<args, registry, ordered_dependencies, package_node,
                   rewrite_version, fhir_files, fhir_file, retries, events>>


(***************************************************************************)
(* upload_resources                                                        *)
(***************************************************************************)
\* faulty variant: the upload starts while the work queue holds specifiers
upload_resources_Early ==
    /\ pc = "download"
    /\ pc' = "upload"
    /\ ordered_dependencies' = {}
    /\ UNCHANGED <<args, registry, disk, packages_to_download, downloaded_packages,
                   untar_count, dependency_graph, package_node, rewrite_version,
                   fhir_files, fhir_file, retries, error, events>>

\* nx.topological_sort returns a generator: nothing is computed before the
\* for loop asks for the first node
upload_resources ==
    /\ pc = "download"
    /\ packages_to_download = <<>>
    /\ pc' = "upload"
    /\ ordered_dependencies' = {}
    /\ UNCHANGED <<args, registry, disk, packages_to_download, downloaded_packages,
                   untar_count, dependency_graph, package_node, rewrite_version,
                   fhir_files, fhir_file, retries, error, events>>

\* faulty variant: the nodes are yielded in any order
ZeroIndegree_AnyOrder == DOMAIN dependency_graph.nodes \ ordered_dependencies

\* nodes the generator can yield next: those whose incoming edges all come
\* from nodes it has yielded
ZeroIndegree ==
    {n \in DOMAIN dependency_graph.nodes \ ordered_dependencies :
        \A e \in dependency_graph.edges : e[2] = n => e[1] \in ordered_dependencies}

\* os.path.basename of the directory a file is in
DirBasename(package_dir, file) ==
    IF file.dir = <<>> THEN package_dir ELSE file.dir[Len(file.dir)]

FilePath(package_dir, file) == [root |-> package_dir, dir |-> file.dir, name |-> file.name]

\* faulty variant: the resource type is compared as it is written
WalkFile_CaseSensitive(package_dir, file, package_version) ==
    IF DirBasename(package_dir, file) = DirOther THEN <<>>
    ELSE IF file.name = PackageJson \/ file.name = IndexJson THEN <<>>
    ELSE IF EndsWith(file.name, ExtSch) THEN <<>>
    ELSE IF DirBasename(package_dir, file) = DirExamples /\ ~args.include_examples
    THEN <<>>
    ELSE LET fhir_resource == FhirResource(FilePath(package_dir, file), file,
                                           package_version, args.only_put,
                                           args.versioned_ids)
         IN  IF fhir_resource.exc # NoExc THEN <<>>
             ELSE IF fhir_resource.val.resource_type = None THEN <<>>
             ELSE LET r_type == fhir_resource.val.resource_type
                  IN  IF \/ r_type \in args.exclude_resource_type
                         \/ (args.only # {} /\ r_type \notin args.only)
                      THEN <<>>
                      ELSE <<fhir_resource.val>>

\* the body of the os.walk loop for one file: the list of the records to add
WalkFile(package_dir, file, package_version) ==
    IF DirBasename(package_dir, file) = DirOther THEN <<>>
    ELSE IF file.name = PackageJson \/ file.name = IndexJson THEN <<>>
    ELSE IF EndsWith(file.name, ExtSch) THEN <<>>
    ELSE IF DirBasename(package_dir, file) = DirExamples /\ ~args.include_examples
    THEN <<>>
    ELSE LET fhir_resource == FhirResource(FilePath(package_dir, file), file,
                                           package_version, args.only_put,
                                           args.versioned_ids)
         IN  IF fhir_resource.exc # NoExc THEN <<>>
             ELSE IF fhir_resource.val.resource_type = None THEN <<>>
             ELSE LET r_type == Lower(fhir_resource.val.resource_type)
                  IN  IF \/ r_type \in args.exclude_resource_type
                         \/ (args.only # {} /\ r_type \notin args.only)
                      THEN <<>>
                      ELSE <<fhir_resource.val>>

\* faulty variant: the error of reading a file ends the enumeration
RECURSIVE WalkFiles_StopAtBadFile(_, _, _)
WalkFiles_StopAtBadFile(package_dir, files, package_version) ==
    IF files = <<>> THEN <<>>
    ELSE IF /\ Head(files).name \notin {PackageJson, IndexJson}
            /\ FhirResource(FilePath(package_dir, Head(files)), Head(files),
                            package_version, args.only_put,
                            args.versioned_ids).exc # NoExc
    THEN <<>>
    ELSE WalkFile(package_dir, Head(files), package_version)
             \o WalkFiles_StopAtBadFile(package_dir, Tail(files), package_version)

RECURSIVE WalkFiles(_, _, _)
WalkFiles(package_dir, files, package_version) ==
    IF files = <<>> THEN <<>>
    ELSE WalkFile(package_dir, Head(files), package_version)
             \o WalkFiles(package_dir, Tail(files), package_version)

\* the for loop up to the while loop, for the node the generator yields
ForPackage(node) ==
    LET package_dir == dependency_graph.nodes[node]
        package_json == read_package_json(package_dir, disk[package_dir])
        package_version == Find(package_json.val.items, "version")
    IN  IF package_dir = None THEN Fail("KeyError") /\ UNCHANGED <<fhir_files, rewrite_version>>
        ELSE IF package_json.exc # NoExc
        THEN Fail(package_json.exc) /\ UNCHANGED <<fhir_files, rewrite_version>>
        ELSE IF package_json.val.is_none
        THEN Fail("TypeError") /\ UNCHANGED <<fhir_files, rewrite_version>>
        ELSE IF \/ ~Has(package_json.val.items, "version")
                \/ ~Has(package_json.val.items, "name")
                \/ ~Has(package_json.val.items, "description")
        THEN Fail("KeyError") /\ UNCHANGED <<fhir_files, rewrite_version>>
        ELSE /\ fhir_files' =
                    sort_fhir_files(WalkFiles(package_dir, disk[package_dir], package_version))
             /\ rewrite_version' = IF args.rewrite_versions THEN package_version ELSE None
             /\ UNCHANGED <<pc, error>>

NextPackage ==
    /\ pc = "upload"
    /\ fhir_files = <<>>
    /\ \E node \in ZeroIndegree :
          /\ ordered_dependencies' = ordered_dependencies \cup {node}
          /\ package_node' = node
          /\ ForPackage(node)
    /\ UNCHANGED <<args, registry, disk, packages_to_download, downloaded_packages,
                   untar_count, dependency_graph, fhir_file, retries, events>>

\* the generator finds no node without incoming edges although nodes are left
TopologicalSortUnfeasible ==
    /\ pc = "upload"
    /\ fhir_files = <<>>
    /\ DOMAIN dependency_graph.nodes \ ordered_dependencies # {}
    /\ ZeroIndegree = {}
    /\ Fail("NetworkXUnfeasible")
    /\ UNCHANGED <<args, registry, disk, packages_to_download, downloaded_packages,
                   untar_count, dependency_graph, ordered_dependencies, package_node,
                   rewrite_version, fhir_files, fhir_file, retries, events>>

\* the generator is exhausted: upload_resources returns, "UPLOAD COMPLETE"
UploadComplete ==
    /\ pc = "upload"
    /\ fhir_files = <<>>
    /\ DOMAIN dependency_graph.nodes \ ordered_dependencies = {}
    /\ pc' = "done"
    /\ UNCHANGED <<args, registry, disk, packages_to_download, downloaded_packages,
                   untar_count, dependency_graph, ordered_dependencies, package_node,
                   rewrite_version, fhir_files, fhir_file, retries, error, events>>

\* the file a record was built from
OpenFile(file_path) ==
    LET files == disk[file_path.root]
    IN  files[CHOOSE n \in 1..Len(files) :
                  files[n].dir = file_path.dir /\ files[n].name = file_path.name]

\* faulty variant: the id is not appended to the URL of a PUT
UploadRequest_NoIdInUrl(res, file) ==
    LET url1 == args.endpoint \o Slash \o res.resource_type
        bundle_type == IF res.resource_type = Bundle
                       THEN get_argument(res.type, file, "type", FALSE)
                       ELSE Ok(None)
    IN  IF bundle_type.exc # NoExc THEN bundle_type
        ELSE IF res.resource_type = Bundle /\ bundle_type.val = Transaction
        THEN Ok([method |-> "POST", url |-> args.endpoint])
        ELSE Ok([method |-> IF res.id # None THEN "PUT" ELSE "POST", url |-> url1])

\* method and URL of the request for a record
UploadRequest(res, file) ==
    LET url1 == args.endpoint \o Slash \o res.resource_type
        put == res.id # None
        url2 == IF put THEN url1 \o Slash \o res.id ELSE url1
        bundle_type == IF res.resource_type = Bundle
                       THEN get_argument(res.type, file, "type", FALSE)
                       ELSE Ok(None)
    IN  IF bundle_type.exc # NoExc THEN bundle_type
        ELSE IF res.resource_type = Bundle /\ bundle_type.val = Transaction
        THEN Ok([method |-> "POST", url |-> args.endpoint])
        ELSE Ok([method |-> IF put THEN "PUT" ELSE "POST", url |-> url2])

\* faulty variant: fhir_files.pop() takes the last record of the queue
Upload_PopsLast ==
    /\ pc = "upload"
    /\ fhir_files # <<>>
    /\ LET res == fhir_files[Len(fhir_files)]
           file == OpenFile(res.file_path)
           request == UploadRequest(res, file)
           payload == get_payload(res, file, rewrite_version)
       IN  /\ fhir_file' = res
           /\ fhir_files' = SubSeq(fhir_files, 1, Len(fhir_files) - 1)
           /\ IF request.exc # NoExc
              THEN Fail(request.exc) /\ UNCHANGED events
              ELSE IF payload.exc # NoExc
              THEN Fail(payload.exc) /\ UNCHANGED events
              ELSE /\ pc' = "sent"
                   /\ events' = Append(events,
                          [ev |-> "send", package |-> package_node, fhir_file |-> res,
                           method |-> request.val.method, url |-> request.val.url,
                           content_type |-> IF res.type = FileTypeXML
                                            THEN "application/xml"
                                            ELSE "application/json",
                           payload |-> payload.val])
                   /\ UNCHANGED error
    /\ UNCHANGED <<args, registry, disk, packages_to_download, downloaded_packages,
                   untar_count, dependency_graph, ordered_dependencies, package_node,
                   rewrite_version, retries>>

\* one iteration of the while loop, up to sending the request
Upload ==
    /\ pc = "upload"
    /\ fhir_files # <<>>
    /\ LET res == Head(fhir_files)
           file == OpenFile(res.file_path)
           request == UploadRequest(res, file)
           payload == get_payload(res, file, rewrite_version)
       IN  /\ fhir_file' = res
           /\ fhir_files' = Tail(fhir_files)
           /\ IF request.exc # NoExc
              THEN Fail(request.exc) /\ UNCHANGED events
              ELSE IF payload.exc # NoExc
              THEN Fail(payload.exc) /\ UNCHANGED events
              ELSE /\ pc' = "sent"
                   /\ events' = Append(events,
                          [ev |-> "send", package |-> package_node, fhir_file |-> res,
                           method |-> request.val.method, url |-> request.val.url,
                           content_type |-> IF res.type = FileTypeXML
                                            THEN "application/xml"
                                            ELSE "application/json",
                           payload |-> payload.val])
                   /\ UNCHANGED error
    /\ UNCHANGED <<args, registry, disk, packages_to_download, downloaded_packages,
                   untar_count, dependency_graph, ordered_dependencies, package_node,
                   rewrite_version, retries>>

\* what the server can answer
StatusCodes == {199, 200, 299, 300, 422}
Bodies == {"OperationOutcome", "no issue", "not JSON"}

\* faulty variant: 200 itself is not a success
IsSuccess_Above200(status_code) == 200 < status_code /\ status_code < 300

IsSuccess(status_code) == 200 <= status_code /\ status_code < 300

\* the response arrives: the rest of the iteration, up to the prompt
Response ==
    /\ pc = "sent"
    /\ \E status_code \in StatusCodes, body \in Bodies :
          /\ events' = Append(events, [ev |-> "response",
                                       success |-> status_code \in 200..299])
          /\ IF IsSuccess(status_code) THEN pc' = "upload" /\ UNCHANGED error
             ELSE IF body = "not JSON" THEN Fail("JSONDecodeError")
             ELSE IF body = "no issue" THEN Fail("KeyError")
             ELSE IF args.non_interactive THEN pc' = "upload" /\ UNCHANGED error
             ELSE pc' = "prompt" /\ UNCHANGED error
    /\ UNCHANGED <<args, registry, disk, packages_to_download, downloaded_packages,
                   untar_count, dependency_graph, ordered_dependencies, package_node,
                   rewrite_version, fhir_files, fhir_file, retries>>

\* faulty variant: the record is appended to the queue
Requeue_Back(queue, record) == Append(queue, record)

\* fhir_files.insert(0, fhir_file)
Requeue(queue, record) == <<record>> \o queue

\* faulty variant: the record returns to the queue whatever the answer is
Prompt_AlwaysRequeue ==
    /\ pc = "prompt"
    /\ \E action \in {"Ignore", "Retry"} :
          /\ action = "Retry" => retries < MaxRetry
          /\ events' = Append(events, [ev |-> "prompt", action |-> action])
          /\ fhir_files' = Requeue(fhir_files, fhir_file)
          /\ retries' = IF action = "Retry" THEN retries + 1 ELSE retries
    /\ pc' = "upload"
    /\ UNCHANGED <<args, registry, disk, packages_to_download, downloaded_packages,
                   untar_count, dependency_graph, ordered_dependencies, package_node,
                   rewrite_version, fhir_file, error>>

\* the operator answers the prompt
Prompt ==
    /\ pc = "prompt"
    /\ \E action \in {"Ignore", "Retry"} :
          /\ action = "Retry" => retries < MaxRetry
          /\ events' = Append(events, [ev |-> "prompt", action |-> action])
          /\ fhir_files' = IF action = "Retry" THEN Requeue(fhir_files, fhir_file)
                           ELSE fhir_files
          /\ retries' = IF action = "Retry" THEN retries + 1 ELSE retries
    /\ pc' = "upload"
    /\ UNCHANGED <<args, registry, disk, packages_to_download, downloaded_packages,
                   untar_count, dependency_graph, ordered_dependencies, package_node,
                   rewrite_version, fhir_file, error>>

Next ==
    \/ resolve_package_versions
    \/ download_packages
    \/ upload_resources
    \/ NextPackage
    \/ TopologicalSortUnfeasible
    \/ UploadComplete
    \/ Upload
    \/ Response
    \/ Prompt

Spec == Init /\ [][Next]_vars


(***************************************************************************)
(* Properties.                                                             *)
(***************************************************************************)
IsSend(i) == events[i].ev = "send"
Sends == {i \in 1..Len(events) : IsSend(i)}

\* the request of events[i] is the first one for its record
IsFirstSend(i) ==
    /\ IsSend(i)
    /\ \A k \in 1..(i - 1) :
          IsSend(k) => events[k].fhir_file.file_path # events[i].fhir_file.file_path

\* position of a record's file in the enumeration of its package directory
WalkIndex(res) ==
    CHOOSE n \in 1..Len(disk[res.file_path.root]) :
        /\ disk[res.file_path.root][n].dir = res.file_path.dir
        /\ disk[res.file_path.root][n].name = res.file_path.name

\* the transitive closure of a set of edges
ComposeEdges(E) ==
    E \cup {p \in {e[1] : e \in E} \X {e[2] : e \in E} :
               \E e, f \in E : e[2] = f[1] /\ p = <<e[1], f[2]>>}

RECURSIVE Closure(_)
Closure(E) == IF ComposeEdges(E) = E THEN E ELSE Closure(ComposeEdges(E))

HasCycle == \E e \in Closure(dependency_graph.edges) : e[1] = e[2]

C2_CyclicGraphUploadsNothing ==
    (pc \notin {"resolve", "download"} /\ HasCycle) =>
        /\ Sends = {}
        /\ pc = "failed" => error = "NetworkXUnfeasible"
        /\ pc # "done"

\* C3: within one package the first requests of the records are in ascending
\* priority; with equal priority in lexicographic order of resourceType; with
\* equal priority and type in enumeration order; and CodeSystem precedes
\* ValueSet precedes ConceptMap precedes StructureDefinition.
DefinitionRank(resource_type) ==
    IF resource_type = CodeSystem THEN 1
    ELSE IF resource_type = ValueSet THEN 2
    ELSE IF resource_type = ConceptMap THEN 3
    ELSE IF resource_type = StructureDefinition THEN 4
    ELSE 0

InUploadOrder(x, y) ==
    /\ \/ x.resource_order < y.resource_order
       \/ /\ x.resource_order = y.resource_order
          /\ StrLess(x.resource_type, y.resource_type)
       \/ /\ x.resource_order = y.resource_order
          /\ x.resource_type = y.resource_type
          /\ WalkIndex(x) < WalkIndex(y)
    /\ (DefinitionRank(x.resource_type) > 0 /\ DefinitionRank(y.resource_type) > 0)
           => DefinitionRank(x.resource_type) <= DefinitionRank(y.resource_type)

C3_SortedWithinPackage ==
    \A i, j \in Sends :
        (i < j /\ IsFirstSend(i) /\ IsFirstSend(j)
               /\ events[i].package = events[j].package)
            => InUploadOrder(events[i].fhir_file, events[j].fhir_file)

\* two records of equal priority and different type were sent in the order
\* opposite to their enumeration
C3_Witness ==
    \E i, j \in Sends :
        /\ i < j /\ IsFirstSend(i) /\ IsFirstSend(j)
        /\ events[i].package = events[j].package
        /\ events[i].fhir_file.resource_order = events[j].fhir_file.resource_order
        /\ events[i].fhir_file.resource_type # events[j].fhir_file.resource_type
        /\ WalkIndex(events[i].fhir_file) > WalkIndex(events[j].fhir_file)

\* C4: the priority of a resource is the one of the fixed table.
PriorityTable(resource_type, patient) ==
    IF resource_type = CodeSystem THEN 1
    ELSE IF resource_type = ValueSet THEN 2
    ELSE IF resource_type = ConceptMap THEN 3
    ELSE IF resource_type = StructureDefinition THEN 4
    ELSE IF resource_type = Bundle THEN 100
    ELSE IF resource_type = Patient THEN patient
    ELSE IF resource_type \in {Condition, Consent, DiagnosticReport, Immunization,
                               MedicationStatement, Observation, Procedure} THEN 120
    ELSE IF resource_type = ImplementationGuide THEN 999
    ELSE 50

RecordsSeen ==
    {events[i].fhir_file : i \in Sends} \cup {fhir_files[n] : n \in 1..Len(fhir_files)}

\* C4 as claimed: Patient has priority 120
C4_PriorityTableAsClaimed ==
    \A res \in RecordsSeen : res.resource_order = PriorityTable(res.resource_type, 120)

\* C4 amended: Patient has priority 110, the rest of the table is as claimed
C4_PriorityTable ==
    \A res \in RecordsSeen : res.resource_order = PriorityTable(res.resource_type, 110)

C4_Witness ==
    \E i \in Sends : /\ events[i].fhir_file.resource_type = Patient
                     /\ events[i].fhir_file.resource_order = 110


\* the file a request was built from
SentFile(i) == OpenFile(events[i].fhir_file.file_path)

\* the document is a Bundle whose type is "transaction": the "type" key of a
\* JSON object; for XML the type child of the root, whose value FHIR writes
\* into the value attribute
IsBundleDocument(file) ==
    IF file.syntax = "json"
    THEN Has(file.items, "resourceType") /\ Find(file.items, "resourceType") = Bundle
    ELSE file.tag \in {Bundle, <<123, 102, 125>> \o Bundle}

IsTransactionBundle(file) ==
    /\ IsBundleDocument(file)
    /\ \E n \in 1..Len(file.items) :
          /\ file.items[n].k \in {"type", "{f}type"}
          /\ file.items[n].v = Transaction \/ file.items[n].a = Transaction

\* PUT {endpoint}/{resourceType}/{id} with a resolved id, else POST
\* {endpoint}/{resourceType}
OrdinaryRequest(e) ==
    IF e.fhir_file.id # None
    THEN /\ e.method = "PUT"
         /\ e.url = args.endpoint \o Slash \o e.fhir_file.resource_type
                        \o Slash \o e.fhir_file.id
    ELSE /\ e.method = "POST"
         /\ e.url = args.endpoint \o Slash \o e.fhir_file.resource_type

\* C5: a resource that is not a transaction Bundle is sent with PUT to
\* {endpoint}/{resourceType}/{id} exactly when its record has a resolved id,
\* and with POST to {endpoint}/{resourceType} exactly when it has none.
C5_PutWithIdElsePost ==
    \A i \in Sends : ~IsTransactionBundle(SentFile(i)) => OrdinaryRequest(events[i])

\* a record with an id and a record without one have been sent, neither of
\* them a Bundle
C5_Witness ==
    \E i, j \in Sends :
        /\ events[i].fhir_file.resource_type # Bundle
        /\ events[j].fhir_file.resource_type # Bundle
        /\ events[i].method = "PUT"
        /\ events[j].method = "POST"

\* C6: a transaction Bundle is sent with POST to the bare endpoint, with or
\* without a resolved id; a Bundle of another type follows the ordinary rule.
C6_TransactionBundleToEndpoint ==
    \A i \in Sends :
        IF IsTransactionBundle(SentFile(i))
        THEN events[i].method = "POST" /\ events[i].url = args.endpoint
        ELSE IsBundleDocument(SentFile(i)) => OrdinaryRequest(events[i])

\* C7: once a request for a record is answered with a status in [200,300),
\* no further request for that record is sent and the record is not queued.
C7_SuccessIsFinal ==
    \A i \in Sends :
        (i < Len(events) /\ events[i + 1].ev = "response" /\ events[i + 1].success) =>
            /\ \A j \in Sends :
                  j > i => events[j].fhir_file.file_path # events[i].fhir_file.file_path
            /\ \A n \in 1..Len(fhir_files) :
                  fhir_files[n].file_path # events[i].fhir_file.file_path

\* a record was retried, then answered with success, and another record of
\* the package was sent after it
C7_Witness ==
    \E i, j, k \in Sends :
        /\ i < j /\ j < k
        /\ events[i].fhir_file = events[j].fhir_file
        /\ events[j + 1].ev = "response" /\ events[j + 1].success
        /\ events[k].package = events[j].package

\* C8: in non-interactive mode a response outside [200,300) leads to no
\* prompt and no retry; the record is dropped and the loop goes on with the
\* next record, so that every record of the queue is sent exactly once.
C8_NonInteractiveIgnores ==
    args.non_interactive =>
        /\ \A i \in 1..Len(events) : events[i].ev # "prompt"
        /\ \A i, j \in Sends :
              i # j => events[i].fhir_file.file_path # events[j].fhir_file.file_path
        /\ (/\ pc \in {"done", "failed"}
            /\ \E i \in 1..Len(events) : events[i].ev = "response" /\ ~events[i].success)
               => fhir_files = <<>>

\* C9: after the answer "Retry" the failed record is at the front of the
\* queue, and the next request sent is the failed request again: same
\* record, method, URL and payload, no other request in between.
C9_RetryResendsSame ==
    \A i \in 1..Len(events) :
        (events[i].ev = "prompt" /\ events[i].action = "Retry") =>
            /\ i >= 3 /\ IsSend(i - 2)
            /\ i = Len(events) =>
                  /\ pc = "upload"
                  /\ fhir_files # <<>>
                  /\ Head(fhir_files) = events[i - 2].fhir_file
            /\ i < Len(events) => events[i + 1] = events[i - 2]

\* the failed request has been sent again while other records are waiting
C9_Witness ==
    /\ Len(events) >= 4
    /\ events[Len(events) - 1].ev = "prompt"
    /\ events[Len(events) - 1].action = "Retry"
    /\ IsSend(Len(events))
    /\ fhir_files # <<>>

\* C10: a response outside [200,300) never aborts the run, whatever its body
\* is: the failure becomes Ignore or Retry and the loop continues.
C10_FailedUploadNeverAborts ==
    [][(pc = "sent" /\ ~events'[Len(events')].success) => pc' \in {"upload", "prompt"}]_vars


\* the version the manifest of a package directory declares
ManifestVersion(root) ==
    LET files == disk[root]
        n == CHOOSE n \in 1..Len(files) : files[n].name = PackageJson
    IN  Find(files[n].items, "version")

\* C11: with versioned ids every resolved id is at most 64 characters long and
\* ends with "--" followed by the slug of the package version, for every
\* existing id, file name and package version.
C11_VersionedIdFits ==
    args.versioned_ids =>
        \A res \in RecordsSeen :
            res.id # None =>
                /\ Len(res.id) <= 64
                /\ EndsWith(res.id, IdSeparator
                                       \o slugify(ManifestVersion(res.file_path.root), 0))

\* the first n characters of s, none when n is not positive
AtMost(s, n) == SubSeq(s, 1, IF n < 0 THEN 0 ELSE IF n < Len(s) THEN n ELSE Len(s))

\* the id field of a document, None when it has none
ExistingId(items) == IF Has(items, "id") THEN Find(items, "id") ELSE None

\* the id policy: the slug of the file name is cut so that it, the separator
\* and the slug of the version fit into 64 characters
IdPolicy(file, packageVersion, generateMissingIds, versionedIds) ==
    LET existingId == ExistingId(file.items)
        versionSlug == slugify(packageVersion, 0)
        maxLenForVersionedForm == 64 - Len(versionSlug) - 2
        generatedId == Strip(AtMost(slugify(SplitExt(file.name)[1], 0),
                                    maxLenForVersionedForm), 45)
        base == IF existingId # None THEN existingId ELSE generatedId
    IN  IF existingId = None /\ ~generateMissingIds THEN None
        ELSE IF versionedIds
        THEN AtMost(base, maxLenForVersionedForm) \o IdSeparator \o versionSlug
        ELSE AtMost(base, 64)

\* C12: the resolved id of every record is the one the id policy gives: absent
\* without an id and without generated ids; otherwise the existing id or else
\* the slug of the file name, cut to 64 characters without versioned ids and
\* cut and followed by "--" and the slug of the version with them.
C12_IdFollowsPolicy ==
    \A res \in RecordsSeen :
        res.id = IdPolicy(OpenFile(res.file_path), ManifestVersion(res.file_path.root),
                          args.only_put, args.versioned_ids)

\* C13: serializing a record never fails for want of an id element, and every
\* request for a record with a resolved id carries that id in its payload and,
\* when it is a PUT, as the last segment of its URL.
C13_PayloadIdIsResolvedId ==
    /\ error # "AttributeError"
    /\ \A i \in Sends :
          events[i].fhir_file.id # None =>
              /\ ExistingId(events[i].payload.items) = events[i].fhir_file.id
              /\ events[i].method = "PUT" =>
                     EndsWith(events[i].url, Slash \o events[i].fhir_file.id)


\* the package directories the for loop of upload_resources has reached
Visited ==
    {root \in DOMAIN disk :
        \E node \in ordered_dependencies : dependency_graph.nodes[node] = root}

FilesOf(root) == {disk[root][n] : n \in 1..Len(disk[root])}

\* a request for the file was sent, or its record waits in the queue
Handled(root, file) ==
    LET path == [root |-> root, dir |-> file.dir, name |-> file.name]
    IN  \/ \E i \in Sends : events[i].fhir_file.file_path = path
        \/ \E n \in 1..Len(fhir_files) : fhir_files[n].file_path = path

\* the document is XML when its first character is "<", JSON otherwise, it
\* parses in that format and it has a resource type
IsResourceFile(file) ==
    IF file.first = LessThan THEN file.syntax = "xml"
    ELSE /\ file.syntax = "json"
         /\ Has(file.items, "resourceType")
         /\ Find(file.items, "resourceType") # None

\* the tag of an XML element without its namespace
LocalName(tag) ==
    LET braces == {i \in 1..Len(tag) : tag[i] = 125}
    IN  IF braces = {} THEN tag
        ELSE SubSeq(tag, (CHOOSE i \in braces : \A j \in braces : j <= i) + 1, Len(tag))

ResourceTypeOf(file) ==
    IF file.first = LessThan THEN LocalName(file.tag) ELSE Find(file.items, "resourceType")

\* the file lies beneath a directory of the given name, at any depth
Beneath(file, dir_name) == \E n \in 1..Len(file.dir) : file.dir[n] = dir_name

ExcludedByWalk(file) ==
    \/ Beneath(file, DirOther)
    \/ file.name \in {PackageJson, IndexJson}
    \/ EndsWith(file.name, ExtSch)
    \/ (~args.include_examples /\ Beneath(file, DirExamples))

PassesFilter(file) ==
    LET r_type == Lower(ResourceTypeOf(file))
    IN  /\ r_type \notin {Lower(a) : a \in args.exclude_resource_type}
        /\ args.only # {} => r_type \in {Lower(a) : a \in args.only}

\* every resource file, of every package reached, that no rule leaves out is
\* in the upload set
UploadSetComplete ==
    \A root \in Visited : \A file \in FilesOf(root) :
        (IsResourceFile(file) /\ ~ExcludedByWalk(file) /\ PassesFilter(file))
            => Handled(root, file)

\* C14: a file without resourceType, or one that does not parse, is never
\* sent and never ends the run: no run ends with the error of reading such a
\* file, and as long as the run has not been ended every other resource file
\* of the packages reached is sent or queued; a completed run has reached
\* every package.
C14_BadFileSkipped ==
    /\ \A i \in Sends : IsResourceFile(SentFile(i))
    /\ error \notin {"LookupError", "ParseError"}
    /\ error = "JSONDecodeError" =>
           (events # <<>> /\ events[Len(events)].ev = "response")
    /\ pc # "failed" => UploadSetComplete
    /\ pc = "done" => ordered_dependencies = DOMAIN dependency_graph.nodes

\* a completed run over a package with a file that is no resource, listed
\* before a resource that was sent, and a later package that was sent too
C14_Witness ==
    /\ pc = "done"
    /\ \E i, j \in Sends :
          /\ i < j
          /\ events[i].package # events[j].package
          /\ \E file \in FilesOf(events[i].fhir_file.file_path.root) :
                /\ ~IsResourceFile(file) /\ ~ExcludedByWalk(file)
                /\ \E n \in 1..Len(disk[events[i].fhir_file.file_path.root]) :
                      /\ disk[events[i].fhir_file.file_path.root][n] = file
                      /\ n < WalkIndex(events[i].fhir_file)

\* the files named package.json of a package directory
ManifestCount(root) ==
    Cardinality({n \in 1..Len(disk[root]) : disk[root][n].name = PackageJson})

\* C15: reading the manifest is fatal exactly when the package does not have
\* one file named package.json: no resource of a package without exactly one
\* is sent, the run has ended when the loop has reached such a package, and
\* the run ends with the error of the missing manifest only if some package
\* has not exactly one.
C15_ManifestExactlyOne ==
    /\ \A i \in Sends : ManifestCount(events[i].fhir_file.file_path.root) = 1
    /\ \A root \in Visited : ManifestCount(root) # 1 => pc = "failed"
    /\ error = "TypeError" => \E root \in DOMAIN disk : ManifestCount(root) # 1

\* C16: no request is sent for a file beneath a directory "other", for the
\* manifest, for an index file, for a ".sch" file or, without include-examples,
\* for a file beneath a directory "examples"; every other resource file is in
\* the upload set.
C16_WalkExclusions ==
    /\ \A i \in Sends : ~ExcludedByWalk(SentFile(i))
    /\ pc # "failed" => UploadSetComplete

\* C17: a resource file is uploaded exactly when its lower-cased type is not
\* in the exclude set and, with a non-empty allow-only set, is in that set.
C17_TypeFilter ==
    /\ \A i \in Sends : PassesFilter(SentFile(i))
    /\ pc # "failed" =>
           \A root \in Visited : \A file \in FilesOf(root) :
               (IsResourceFile(file) /\ ~ExcludedByWalk(file))
                   => (Handled(root, file) <=> PassesFilter(file))

\* a completed run with a filter that left out one resource and let pass a
\* resource whose type is written with capitals
C17_Witness ==
    /\ pc = "done"
    /\ args.exclude_resource_type \cup args.only # {}
    /\ \E root \in Visited : \E file \in FilesOf(root) :
          IsResourceFile(file) /\ ~ExcludedByWalk(file) /\ ~Handled(root, file)
    /\ \E i \in Sends :
          /\ ResourceTypeOf(SentFile(i)) # Lower(ResourceTypeOf(SentFile(i)))
          /\ events[i].method = "PUT"

\* C18: the format of a record is XML exactly when the first character of
\* its file is "<", and its resource type is the resourceType key of a JSON
\* document and the tag of the root without the namespace of an XML document.
C18_ResourceTypeOfFormat ==
    \A res \in RecordsSeen :
        /\ res.type = FileTypeXML <=> OpenFile(res.file_path).first = LessThan
        /\ res.type \in {FileTypeXML, FileTypeJSON}
        /\ res.resource_type = ResourceTypeOf(OpenFile(res.file_path))

\* a JSON document and an XML document with a namespace, of the same resource
\* type, were sent in one run
C18_Witness ==
    \E i, j \in Sends :
        /\ events[i].fhir_file.type = FileTypeJSON
        /\ events[j].fhir_file.type = FileTypeXML
        /\ Contains(SentFile(j).tag, <<125>>)
        /\ events[i].fhir_file.resource_type = events[j].fhir_file.resource_type

\* C20: in non-interactive mode, once the upload of an acyclic graph of
\* packages with one manifest each has begun, the run does not end before
\* the completed state: it is never ended by an error.
C20_NonInteractiveCompletes ==
    (/\ args.non_interactive
     /\ ordered_dependencies # {}
     /\ ~HasCycle
     /\ \A root \in DOMAIN disk : ManifestCount(root) = 1)
        => pc # "failed"


\* C21: every resolved package specifier is fetched and extracted at most
\* once in a run, with and without fetching dependencies.
C21_DownloadedOnce ==
    \A package \in DOMAIN untar_count : untar_count[package] <= 1


\* the specifiers the registry serves an archive for
Served == {PackageSpec(key[1], key[2]) : key \in DOMAIN registry.tars}

\* C22: the work queue loop of download_packages terminates, whatever the
\* dependency relation: every iteration that does not end the loop either
\* records one more of the finitely many specifiers that can be downloaded, or
\* records none and leaves the queue shorter, so no run iterates forever.
C22_DownloadTerminates ==
    [][(pc = "download" /\ pc' = "download") =>
          LET before == {downloaded_packages[n] : n \in 1..Len(downloaded_packages)}
              after == {downloaded_packages'[n] : n \in 1..Len(downloaded_packages')}
          IN  \/ /\ before \subseteq after /\ before # after
                 /\ Len(downloaded_packages') = Cardinality(after)
                 /\ after \subseteq Served
              \/ /\ after = before
                 /\ Len(packages_to_download') < Len(packages_to_download)]_vars

\* the loop has ended on a relation with a cycle and with a package that
\* depends on itself
C22_Witness ==
    /\ pc = "upload"
    /\ \E e \in dependency_graph.edges : e[1] = e[2]
    /\ \E e \in Closure(dependency_graph.edges) :
          e[1] = e[2] /\ e \notin dependency_graph.edges


\* the specifiers the manifest of a package directory lists as dependencies
ManifestDependencies(root) ==
    LET files == disk[root]
        n == CHOOSE n \in 1..Len(files) : files[n].name = PackageJson
        dependencies == IF Has(files[n].items, "dependencies")
                        THEN Find(files[n].items, "dependencies") ELSE <<>>
    IN  {PackageSpec(dependencies[k][1], dependencies[k][2]) :
            k \in 1..Len(dependencies)}

\* the package id of the specifier is an entry of the ignore list
OnIgnoreList(dep) ==
    \E n \in 1..Len(ignored_dependencies) : Split(dep, 64)[1] = ignored_dependencies[n]

\* the packages whose dependencies have been gathered, with one manifest
Processed ==
    {package \in {downloaded_packages[n] : n \in 1..Len(downloaded_packages)} :
        ManifestCount(dependency_graph.nodes[package]) = 1}

\* the specifier begins with an entry of the ignore list
MatchesIgnoreList(dep) ==
    \E n \in 1..Len(ignored_dependencies) :
        LET ign == ignored_dependencies[n]
        IN  Len(ign) <= Len(dep) /\ \A i \in 1..Len(ign) : dep[i] = ign[i]

\* C23: with fetching of dependencies, when the graph has been built it has
\* the edge D -> P for every processed package P and every dependency D of the
\* manifest of P that the ignore list does not match, also when D was
\* downloaded before P.
C23_EdgePerDependency ==
    (args.get_dependencies /\ pc \in {"upload", "sent", "prompt", "done"}) =>
        \A package \in Processed :
            \A dep \in ManifestDependencies(dependency_graph.nodes[package]) :
                ~MatchesIgnoreList(dep) => <<dep, package>> \in dependency_graph.edges

\* the graph is built and has an edge from a package downloaded earlier to a
\* package processed later
C23_Witness ==
    /\ args.get_dependencies /\ pc = "upload"
    /\ \E i, j \in 1..Len(downloaded_packages) :
           /\ i < j
           /\ downloaded_packages[j] \in Processed
           /\ downloaded_packages[i] \in
                  ManifestDependencies(dependency_graph.nodes[downloaded_packages[j]])
           /\ <<downloaded_packages[i], downloaded_packages[j]>> \in dependency_graph.edges

\* C24 as stated: a dependency is skipped exactly if its package id is an entry of the
\* ignore list: a dependency with a listed id is no node of the graph, has no
\* edge and is not downloaded, and every other dependency of a processed
\* package, one whose id begins with a listed id included, has its edge and is
\* downloaded or waits in the queue.
C24_SkippedIffListed ==
    /\ \A node \in DOMAIN dependency_graph.nodes : ~OnIgnoreList(node)
    /\ \A e \in dependency_graph.edges : ~OnIgnoreList(e[1])
    /\ \A package \in DOMAIN untar_count : ~OnIgnoreList(package)
    /\ \A package \in Processed :
           \A dep \in ManifestDependencies(dependency_graph.nodes[package]) :
               ~OnIgnoreList(dep) =>
                   /\ <<dep, package>> \in dependency_graph.edges
                   /\ \/ dep \in DOMAIN untar_count
                      \/ \E n \in 1..Len(packages_to_download) : packages_to_download[n] = dep
                      \/ pc = "failed"

\* C24: a dependency is skipped exactly if its specifier begins with an entry
\* of the ignore list: such a dependency is no node of the graph, has no edge
\* and is not downloaded, and every other dependency of a processed package
\* has its edge and is downloaded or waits in the queue.
C24_SkippedIffPrefixed ==
    /\ \A node \in DOMAIN dependency_graph.nodes : ~MatchesIgnoreList(node)
    /\ \A e \in dependency_graph.edges : ~MatchesIgnoreList(e[1])
    /\ \A package \in DOMAIN untar_count : ~MatchesIgnoreList(package)
    /\ \A package \in Processed :
           \A dep \in ManifestDependencies(dependency_graph.nodes[package]) :
               ~MatchesIgnoreList(dep) =>
                   /\ <<dep, package>> \in dependency_graph.edges
                   /\ \/ dep \in DOMAIN untar_count
                      \/ \E n \in 1..Len(packages_to_download) : packages_to_download[n] = dep
                      \/ pc = "failed"

\* the graph is built for a package that depends on the core package of the
\* base specification and on another package
C24_Witness ==
    /\ pc = "upload"
    /\ \E package \in Processed :
           LET deps == ManifestDependencies(dependency_graph.nodes[package])
           IN  /\ PackageSpec(hl7_fhir_r4_core, Version10) \in deps
               /\ \E dep \in deps : ~MatchesIgnoreList(dep) /\ dep \in DOMAIN untar_count

\* the specifier names a version
HasVersion(package) == \E i \in 1..Len(package) : package[i] = 64

\* C25: version resolution gives a list as long as the top-level packages and
\* in their order, where a specifier without a version has become id@v for the
\* last version v the registry lists for id, whether or not v is the greatest,
\* and a specifier with a version is unchanged; the registry is not asked
\* about a specifier with a version, so resolution cannot fail on one.
C25_ResolvesToLastListed ==
    [][pc = "resolve" =>
          /\ (\A n \in 1..Len(args.packages) : HasVersion(args.packages[n]))
                 => pc' = "download"
          /\ pc' = "download" =>
                 /\ Len(packages_to_download') = Len(args.packages)
                 /\ \A n \in 1..Len(args.packages) :
                        LET package == args.packages[n]
                            listed == registry.versions[package]
                        IN  packages_to_download'[n] =
                                IF HasVersion(package) THEN package
                                ELSE package \o At \o listed[Len(listed)]]_vars

\* resolution has just ended for a package whose last listed version is not
\* its greatest and for a specifier with a version the registry does not list
C25_Witness ==
    /\ pc = "download" /\ untar_count = <<>>
    /\ Len(packages_to_download) = Len(args.packages)
    /\ \E n \in 1..Len(args.packages) :
           /\ registry.versions[IdA] = <<Version10, Version09>>
           /\ args.packages[n] = IdA
           /\ packages_to_download[n] = PackageSpec(IdA, Version09)
    /\ \E n \in 1..Len(args.packages) :
           /\ args.packages[n] = PackageSpec(IdC, Version10)
           /\ IdC \notin DOMAIN registry.versions
           /\ packages_to_download[n] = args.packages[n]

\* the key of the archive of a specifier id@version
ArchiveOf(package) ==
    LET at == CHOOSE i \in 1..Len(package) : package[i] = 64
    IN  <<SubSeq(package, 1, at - 1), SubSeq(package, at + 1, Len(package))>>

\* the loop of download_packages is about to fetch the archive of its next
\* specifier
Fetching ==
    /\ pc = "download" /\ packages_to_download # <<>>
    /\ \A n \in 1..Len(downloaded_packages) :
           downloaded_packages[n] # Head(packages_to_download)

\* C26: when the archive of a package cannot be opened the process exits by
\* exit(1), and no upload request has been sent by then.
C26_UnopenedArchiveExits ==
    [][(Fetching /\ ArchiveOf(Head(packages_to_download)) \notin DOMAIN registry.tars) =>
          /\ pc' = "failed" /\ error' = "SystemExit"
          /\ \A i \in 1..Len(events') : events'[i].ev # "send"]_vars

\* the process has exited on the archive of a dependency, after another
\* package was extracted, or on a later top-level package
C26_Witness ==
    /\ pc = "failed" /\ error = "SystemExit"
    /\ DOMAIN disk # {} /\ events = <<>>

\* C27: a failure while extracting one entry of an archive skips that entry
\* only, whatever the entry and the failure: when the archive of a package
\* has been fetched, every regular file of it is in the package directory.
C27_EntryFailureSkipsEntry ==
    [][(Fetching /\ ArchiveOf(Head(packages_to_download)) \in DOMAIN registry.tars) =>
          LET key == ArchiveOf(Head(packages_to_download))
              tar == registry.tars[key]
              root == key[1] \o Underscore \o key[2]
          IN  /\ root \in DOMAIN disk'
              /\ \A n \in 1..Len(tar) :
                     TarMember(tar[n]) = "file" =>
                         \E m \in 1..Len(disk'[root]) :
                             /\ disk'[root][m].dir = tar[n].dir
                             /\ disk'[root][m].items = tar[n].items
                             /\ disk'[root][m].syntax = tar[n].syntax]_vars

\* the top-level version of a document: the value of the key of a JSON
\* object; of an XML element version, in the namespace of the root or in none,
\* the value attribute or else the text
VersionItems(items) ==
    {n \in 1..Len(items) : items[n].k \in {"version", "{f}version"}}

VersionOf(items) ==
    LET n == CHOOSE n \in VersionItems(items) : \A m \in VersionItems(items) : n <= m
    IN  IF items[n].a # None THEN items[n].a ELSE items[n].v

\* C28: with rewriting of versions the top-level version of every payload
\* sent for a resource of a package is the version of the manifest of that
\* package; without, it is the version of the source file. A resource without
\* a version is sent without one.
C28_PayloadVersion ==
    \A i \in Sends :
        LET source == SentFile(i).items
            payload == events[i].payload.items
        IN  /\ (VersionItems(payload) = {}) = (VersionItems(source) = {})
            /\ VersionItems(source) # {} =>
                   VersionOf(payload) =
                       IF args.rewrite_versions
                       THEN ManifestVersion(events[i].fhir_file.file_path.root)
                       ELSE VersionOf(source)

\* the requests sent for a record, the "Retry" answers given for it and its
\* places in the queue
SendsOf(record) == {i \in Sends : events[i].fhir_file = record}

RetriesOf(record) ==
    {i \in 3..Len(events) :
        /\ events[i].ev = "prompt" /\ events[i].action = "Retry"
        /\ IsSend(i - 2) /\ events[i - 2].fhir_file = record}

QueuedOf(record) == {n \in 1..Len(fhir_files) : fhir_files[n] = record}

\* the request for the record is waiting for its response or for the answer
\* of the operator
InFlight(record) == pc \in {"sent", "prompt"} /\ fhir_file = record

\* the records that have been sent or wait in the queue
KnownRecords ==
    {events[i].fhir_file : i \in Sends} \cup {fhir_files[n] : n \in 1..Len(fhir_files)}

\* what is left of the while loop over the queue: three steps for every
\* queued record, less for a request on its way
Work ==
    3 * Len(fhir_files) + (IF pc = "sent" THEN 2 ELSE IF pc = "prompt" THEN 1 ELSE 0)

\* the while loop over the queue of a package is running
LoopRunning == pc \in {"sent", "prompt"} \/ (pc = "upload" /\ fhir_files # <<>>)

\* the step is the answer "Retry"
RetryStep ==
    /\ pc = "prompt" /\ Len(events') = Len(events) + 1
    /\ events'[Len(events')].ev = "prompt" /\ events'[Len(events')].action = "Retry"

\* the account of the requests, answers and queue places of every record
RetryAccounting ==
    ~args.non_interactive =>
        \A record \in KnownRecords :
            /\ Cardinality(SendsOf(record)) + Cardinality(QueuedOf(record))
                   = 1 + Cardinality(RetriesOf(record))
            /\ (pc # "failed" /\ QueuedOf(record) = {} /\ ~InFlight(record)) =>
                   LET i == CHOOSE i \in SendsOf(record) : \A j \in SendsOf(record) : j <= i
                   IN  \/ events[i + 1].ev = "response" /\ events[i + 1].success
                       \/ /\ Len(events) >= i + 2
                          /\ events[i + 2].ev = "prompt" /\ events[i + 2].action = "Ignore"

\* C29: in interactive mode a record has left the queue for good only after a
\* 2xx response or the answer "Ignore"; the requests sent for a record are
\* one more than the "Retry" answers given for it; and every step of the loop
\* over the queue of a package other than the answer "Retry" brings the loop
\* nearer to its end, which is reached with an empty queue only, so the loop
\* terminates unless the operator answers "Retry" for ever.
C29_InteractiveRetry ==
    [][/\ RetryAccounting'
       /\ (~args.non_interactive /\ LoopRunning /\ ~RetryStep) =>
              \/ pc' = "failed"
              \/ /\ package_node' = package_node
                 /\ Work' < Work
       /\ (~args.non_interactive /\ pc \in {"upload", "sent", "prompt"}
              /\ (package_node' # package_node \/ pc' = "done")) =>
              (pc = "upload" /\ fhir_files = <<>>)]_vars

\* an interactive run is complete after the same record was sent again after
\* every "Retry" and left the queue by "Ignore", and another by a 2xx response
C29_Witness ==
    /\ ~args.non_interactive /\ pc = "done"
    /\ \E record \in KnownRecords :
           /\ Cardinality(RetriesOf(record)) >= 2
           /\ Cardinality(SendsOf(record)) = 1 + Cardinality(RetriesOf(record))
           /\ \E i \in 1..Len(events) :
                  /\ events[i].ev = "prompt" /\ events[i].action = "Ignore"
                  /\ events[i - 2].fhir_file = record
    /\ \E i \in Sends : events[i + 1].success

\* the top-level specifiers with their versions
ResolvedTopLevel ==
    {LET package == args.packages[n]
         listed == registry.versions[package]
     IN  IF HasVersion(package) THEN package
         ELSE package \o At \o listed[Len(listed)] : n \in 1..Len(args.packages)}

\* the package has been downloaded and extracted
Extracted(package) ==
    /\ package \in DOMAIN untar_count
    /\ package \in DOMAIN dependency_graph.nodes
    /\ dependency_graph.nodes[package] \in DOMAIN disk

\* every dependency that the manifest of an extracted package lists and the
\* ignore list does not match has been extracted
DependenciesExtracted ==
    \A package \in DOMAIN untar_count :
        ManifestCount(dependency_graph.nodes[package]) = 1 =>
            \A dep \in ManifestDependencies(dependency_graph.nodes[package]) :
                ~MatchesIgnoreList(dep) => Extracted(dep)

\* C30 as stated: a request is sent only when the work queue is empty and
\* every top-level package and every dependency that is not ignored has been
\* downloaded and extracted, with or without fetching of dependencies.
C30_TwoPhasesAsClaimed ==
    Sends # {} =>
        /\ packages_to_download = <<>>
        /\ \A package \in ResolvedTopLevel : Extracted(package)
        /\ DependenciesExtracted

\* C30: the run is two strict phases: a request is sent only when the work
\* queue is empty and every top-level package has been downloaded and
\* extracted, and with fetching of dependencies also every dependency, direct
\* or not, that the ignore list does not match.
C30_TwoPhases ==
    Sends # {} =>
        /\ packages_to_download = <<>>
        /\ \A package \in ResolvedTopLevel : Extracted(package)
        /\ args.get_dependencies => DependenciesExtracted

\* the first request is sent after a package, a dependency of it and a
\* dependency of that one have been extracted
C30_Witness ==
    /\ Len(events) = 1 /\ IsSend(1) /\ args.get_dependencies
    /\ \E top \in ResolvedTopLevel, dep, dep2 \in DOMAIN untar_count :
           /\ dep \notin ResolvedTopLevel /\ dep2 \notin ResolvedTopLevel /\ dep # dep2
           /\ dep \in ManifestDependencies(dependency_graph.nodes[top])
           /\ dep2 \in ManifestDependencies(dependency_graph.nodes[dep])

\* download_packages has returned the graph
GraphBuilt ==
    \/ pc \in {"upload", "sent", "prompt", "done"}
    \/ pc = "failed" /\ (ordered_dependencies # {} \/ error = "NetworkXUnfeasible")

\* the specifier has the form id@version
IsIdAtVersion(node) ==
    /\ Cardinality({i \in 1..Len(node) : node[i] = 64}) = 1
    /\ node[1] # 64 /\ node[Len(node)] # 64

\* C31: when the graph has been built every node of it, a node first created
\* as the source of an edge included, has the form id@version and carries
\* the path of its extracted package, so the upload loop meets no node
\* without a path.
C31_EveryNodeHasPath ==
    GraphBuilt =>
        /\ \A node \in DOMAIN dependency_graph.nodes :
               /\ IsIdAtVersion(node)
               /\ dependency_graph.nodes[node] # None
               /\ dependency_graph.nodes[node] \in DOMAIN disk
               /\ LET key == ArchiveOf(node)
                  IN  dependency_graph.nodes[node] = key[1] \o Underscore \o key[2]
        /\ \A e \in dependency_graph.edges :
               e[1] \in DOMAIN dependency_graph.nodes /\ e[2] \in DOMAIN dependency_graph.nodes

\* the graph is built and has a node that was created as the source of an
\* edge before its package was downloaded
C31_Witness ==
    /\ pc = "upload" /\ args.get_dependencies
    /\ \E e \in dependency_graph.edges :
           /\ e[1] \notin ResolvedTopLevel
           /\ \E i, j \in 1..Len(downloaded_packages) :
                  i < j /\ downloaded_packages[i] = e[2] /\ downloaded_packages[j] = e[1]
           /\ dependency_graph.nodes[e[1]] \in DOMAIN disk

\* the while loop over the records of the package package_node is running
InPackageLoop == pc \in {"upload", "sent", "prompt"} /\ package_node # None

\* the sorted list of records the loop of the current package started with
InitialQueue ==
    LET package_dir == dependency_graph.nodes[package_node]
        package_json == read_package_json(package_dir, disk[package_dir])
    IN  sort_fhir_files(WalkFiles(package_dir, disk[package_dir],
                                  Find(package_json.val.items, "version")))

IsSuffix(queue, list) ==
    \E k \in 0..Len(list) : queue = SubSeq(list, k + 1, Len(list))

\* C32: at every point of the upload loop of a package the queue is a
\* contiguous suffix of the sorted list the loop started with, headed by the
\* record popped last right after the answer "Retry"; it is sorted by
\* (priority, resourceType), holds no record twice, and holds no record that
\* had a 2xx response or was ignored: every request sent for a queued record
\* was answered outside 2xx and then by "Retry".
C32_QueueIsSuffix ==
    InPackageLoop =>
        /\ IsSuffix(fhir_files, InitialQueue)
        /\ (events # <<>> /\ events[Len(events)].ev = "prompt"
                /\ events[Len(events)].action = "Retry") =>
               (fhir_files # <<>> /\ Head(fhir_files) = fhir_file)
        /\ \A m, n \in 1..Len(fhir_files) :
               m < n =>
                   /\ fhir_files[m] # fhir_files[n]
                   /\ fhir_files[m].resource_order <= fhir_files[n].resource_order
                   /\ fhir_files[m].resource_order = fhir_files[n].resource_order =>
                          ~StrLess(fhir_files[n].resource_type, fhir_files[m].resource_type)
        /\ \A n \in 1..Len(fhir_files) :
               \A i \in SendsOf(fhir_files[n]) :
                   /\ i + 2 <= Len(events)
                   /\ events[i + 1].ev = "response" /\ ~events[i + 1].success
                   /\ events[i + 2].ev = "prompt" /\ events[i + 2].action = "Retry"

\* the record answered by "Retry" is back in front of a waiting record of a
\* later priority
C32_Witness ==
    /\ InPackageLoop /\ pc = "upload"
    /\ events # <<>> /\ events[Len(events)].ev = "prompt"
    /\ events[Len(events)].action = "Retry"
    /\ Len(fhir_files) >= 2 /\ Head(fhir_files) = fhir_file
    /\ fhir_files[1].resource_order < fhir_files[2].resource_order

====
